---- MODULE Spec2Model ----
(***************************************************************************)
(* Model of the NoteLab transport scheduler (src/transport.js) together    *)
(* with the parts of its collaborators it reads and writes: the piano      *)
(* roll's note list and playhead (src/pianoRoll.js), the drum grid's       *)
(* pattern and lane states (src/drumMachine.js), and the audio engine      *)
(* (src/audioEngine.js): its clock, its effects chain and settings, and    *)
(* the voices playNote and renderToBuffer build.                           *)
(*                                                                         *)
(* The state is that of the loaded page: UI.init() has run, so that the    *)
(* audio engine is initialized (its AudioContext and its effects chain     *)
(* exist) and the piano roll's canvas is initialized (render() draws).     *)
(*                                                                         *)
(* The audio clock is read in whole milliseconds.  The times the code      *)
(* computes from it are the doubles of the code: the clock reading ms/1000 *)
(* rounded to a double, the literals of the instrument definitions, and    *)
(* the sums, differences, products and quotients, each rounded to nearest, *)
(* ties to even.  nextScheduleTime, the start and the duration of a voice  *)
(* and the times of its envelope events are such doubles; the              *)
(* observations of the scheduler hold them to the nearest millisecond, and *)
(* the timeout of a voice is a number of milliseconds of the wall clock,   *)
(* which runs in step with the audio clock.                                *)
(***************************************************************************)
EXTENDS Integers, Sequences, FiniteSets, TLC

\* ------------------------------------------------------------------------
\* Bounds of the model
\* ------------------------------------------------------------------------

\* The audio clock is explored up to this value (milliseconds).
MaxTime == 800

\* Number of notes that addNote may create in one behaviour.
MaxNotes == 2

\* Number of control operations (play, pause, stop, setBPM, toggles, edits)
\* in one behaviour; scheduler invocations and clock steps are not counted.
MaxOps == 4

\* Length of the arrangement in bars.  The scheduler reads the length from
\* the piano roll's configuration on every invocation; the model shortens
\* the arrangement so that its end is reached within MaxTime.
Bars == 1

\* Amounts by which the audio clock advances in one step (milliseconds).
ElapseSteps == {100}

\* Lanes and steps tried for the drum grid's operations.
DrumLaneInputs == {"kick", "snare"}

\* Lane ids tried for the drum machine's operations, which take any string:
\* the lanes above and one that is no lane.
LaneIdInputs == DrumLaneInputs \cup {"tom"}
DrumStepInputs == {0, 1}

\* Number of voices that calls of playNote from outside the scheduler build
\* in one behaviour.
MaxVoices == 1

\* Arguments tried for the audio engine's operations: an instrument without
\* and one with filter and distortion, an id that is no property at all, and
\* an id that names a member of Object.prototype; a start time of null, of 0
\* and a later one; patches with some of the fields.
InstrumentInputs == {"piano", "distortedGuitar", "kazoo", "constructor"}
StartTimeInputs == {-1, 0, 200}     \* -1 is None, a startTime of null
RenderNoteInputs ==
  {<<[pitch |-> 60, start |-> 2, duration |-> 4, velocity |-> 80],
     [pitch |-> 64, start |-> 4, duration |-> 1, velocity |-> 0]>>}

\* Amounts by which the audio clock advances between the engine's operations.
EngineElapseSteps == {400}

\* Amounts by which the audio clock advances between the edits of the piano
\* roll.
EditElapseSteps == {400}

\* Patches tried for updateEffectSettings, volumes tried for setMasterVolume.
ReverbPatches == {[enabled |-> TRUE], [enabled |-> FALSE], [mix |-> 50]}
DelayPatches == {[enabled |-> TRUE], [time |-> 500, feedback |-> 60]}
VolumeInputs == {50, 150}

\* Drum types tried for playDrum and playDrumPreview: the four types, one that
\* is no property at all and one that names a member of Object.prototype.
DrumTypeInputs == {"kick", "snare", "hihat", "clap", "tom", "constructor"}

\* Effect names tried for updateEffectSettings besides 'reverb' and 'delay'.
EffectNameInputs == {"chorus", "__proto__"}

\* Effect settings of a song file, which applySongData passes on as they are.
SongReverbSettings == {[enabled |-> TRUE, mix |-> 150], [enabled |-> FALSE, mix |-> 30]}
SongDelaySettings ==
  {[enabled |-> TRUE, time |-> 3000, feedback |-> 100, mix |-> 25],
   [enabled |-> TRUE, time |-> 300, feedback |-> 40, mix |-> 25]}

\* Arguments tried for setBPM.
BpmInputs == {5, 300, 600}

\* Start ticks and pitches tried for addNote.
StartInputs == {0, 2}
PitchInputs == {60}

\* Cells (tick, pitch) the pointer is at in a mouse event of the piano roll.
MouseTimeInputs == {0, 2}
MousePitchInputs == {60, 62}

\* Durations (ticks) and velocities (hundredths) tried for addNote.
DurationInputs == {4, 1}
VelocityInputs == {80, 50}

\* Songs tried for setAllNotes: a note addNote would reject and one that
\* carries the id of a note addNote has created.  An id of -1 (None) is a
\* missing id.
SongNotesInputs ==
  {<<[id |-> -1, pitch |-> 5, start |-> 200, duration |-> 4, velocity |-> 80]>>,
   <<[id |-> 1, pitch |-> 64, start |-> 2, duration |-> 4, velocity |-> 80]>>}

\* Instruments the selector offers.
SelectorInputs == {"piano", "bass"}

\* Names tried for PianoRoll.setCurrentInstrument, which takes any string: two
\* of the selector and one that names a member of Object.prototype.
RollInstrumentInputs == {"piano", "bass", "constructor"}

\* Positions tried for PianoRoll.setPlayheadPosition.
PlayheadInputs == {0, 5}

\* Songs tried for applySongData, with the properties the stored object has:
\* one whose instrument names a member of Object.prototype, one with every
\* property, one with a bpm of 0, an empty instrument and a delay only.
SongInputs ==
  {[bpm |-> 300, instrument |-> "constructor",
    notes |-> <<[id |-> -1, pitch |-> 60, start |-> 0, duration |-> 4, velocity |-> 80]>>],
   [bpm |-> 300, instrument |-> "bass",
    notes |-> <<[id |-> 1, pitch |-> 60, start |-> 2, duration |-> 4, velocity |-> 80]>>,
    drumPattern |-> [kick |-> {0}],
    drumLaneStates |-> [kick |-> [muted |-> TRUE]],
    effects |-> [reverb |-> [enabled |-> TRUE, mix |-> 150],
                 delay |-> [enabled |-> TRUE, time |-> 3000, feedback |-> 100,
                            mix |-> 25]]],
   [bpm |-> 0, instrument |-> "",
    effects |-> [delay |-> [enabled |-> TRUE, time |-> 300, feedback |-> 40,
                            mix |-> 25]]]}

\* Songs tried for setPattern and setLaneStates, volumes for setLaneVolume.
SongPatternInputs ==
  {[kick |-> {0, 500}, snare |-> {1}], [hihat |-> {1}]}
SongLaneStatesInputs ==
  {[kick |-> [muted |-> TRUE, solo |-> TRUE, volume |-> 30]],
   [snare |-> [volume |-> 150]]}
LaneVolumeInputs == {50, 150}

\* Pitches tried for recordNote: below the piano roll's range, and inside it.
RecordPitchInputs == {5, 60}

\* ------------------------------------------------------------------------
\* Program constants
\* ------------------------------------------------------------------------

lookahead == 100
scheduleAheadTime == 100

DRUM_CONFIG ==
  [lanes |-> <<"kick", "snare", "hihat", "clap">>, stepsPerBar |-> 16, totalBars |-> 8]

PIANO_ROLL_CONFIG ==
  [minNote |-> 12, maxNote |-> 108,
   bars |-> Bars, beatsPerBar |-> 4, sixteenthsPerBeat |-> 4]

getConfig == PIANO_ROLL_CONFIG

\* totalLength of scheduler(), maxPosition of addNote()
totalLength == getConfig.bars * getConfig.beatsPerBar * getConfig.sixteenthsPerBeat

NoteIds == 1..MaxNotes

\* Value of a variable that holds no tick / no time yet.
None == -1

\* ------------------------------------------------------------------------
\* State
\* ------------------------------------------------------------------------
VARIABLES
  \* transportState
  isPlaying, isPaused, position, bpm, loopEnabled, metronomeEnabled,
  recordEnabled,
  \* scheduler variables of transport.js
  schedulerTimer, nextScheduleTime, scheduledNotes, lastScheduledPosition,
  \* pianoRoll.js: note list (ids in array order), the note objects, id counter,
  \* playhead
  notes, noteObj, nextNoteId, playheadPosition,
  \* pianoRoll.js: the ids selected, the id under the pointer, the gesture in
  \* progress (dragNote holds the note object), the instrument of the preview
  selectedNotes, hoveredNote, isDragging, dragNote, dragStartX, dragStartY,
  pianoRollInstrument,
  \* ui.js: the instrument selected
  currentInstrument,
  \* audioEngine.js: whether the AudioContext exists, its currentTime, and the
  \* parameters and connections of the nodes initAudioEngine creates
  audioContext, currentTime, fxNodes,
  \* audioEngine.js: effectSettings, the voices playNote has built, the voices
  \* of the last renderToBuffer
  effectSettings, liveVoices, rendered,
  \* whether the last operation ended with an exception instead of returning
  thrown,
  \* observations of the last step
  batch,        \* ticks processed by the scheduler invocation of the last step
  stateCalls,   \* arguments of onPlayStateChange made by the last step
  \* history
  run,          \* clock value read by the last play(), ticks processed since,
                \* whether it went on without pause or setBPM, and the number
                \* of ticks it had processed at the last setBPM
  lastTick,     \* last tick processed in this pass (-1 at its start), and the
                \* onset and spacing of the last tick processed since play()
  lastReported, \* last argument of onPositionUpdate
  sinceVisualUpdate,  \* performance.now() - lastVisualUpdate, in milliseconds
                      \* up to VisualUpdateInterval
  \* drumMachine.js: the hits of each lane, and each lane's state
  pattern, laneStates,
  ops,          \* number of control operations so far
  intervals,    \* number of interval timers that setInterval has created and
                \* clearInterval has not cleared
  dispatched,   \* the notes handed to the engine, with their onsets, by the
                \* invocations of scheduler() that record them
  pending       \* the note recordNote inserted, until the scheduler processes
                \* a tick, the note is removed or the transport is stopped

transportVars == <<isPlaying, isPaused, position, bpm, loopEnabled, metronomeEnabled>>
schedVars == <<schedulerTimer, intervals, nextScheduleTime, scheduledNotes,
               lastScheduledPosition>>
selVars == <<selectedNotes, hoveredNote>>
mouseVars == <<isDragging, dragNote, dragStartX, dragStartY>>
instVars == <<pianoRollInstrument, currentInstrument>>
\* What the piano roll holds besides the notes and the playhead
editVars == <<selVars, mouseVars, instVars>>
rollVars == <<notes, noteObj, nextNoteId, playheadPosition, editVars>>
engineVars == <<audioContext, currentTime, fxNodes>>
fxVars == <<effectSettings, liveVoices, rendered>>
obsVars == <<batch, stateCalls>>
histVars == <<run, lastTick, lastReported, sinceVisualUpdate, ops>>
recVars == <<recordEnabled, pending>>
drumVars == <<pattern, laneStates>>

\* The variables that the transport and the piano roll neither read nor write
restVars == <<drumVars, fxVars>>

vars == <<transportVars, schedVars, rollVars, engineVars, obsVars, histVars, recVars,
          restVars, thrown, dispatched>>

\* ------------------------------------------------------------------------
\* Pure functions
\* ------------------------------------------------------------------------

Range(seq) == {seq[i] : i \in DOMAIN seq}

Max(a, b) == IF a > b THEN a ELSE b
Min(a, b) == IF a < b THEN a ELSE b

\* setBPM: Math.max(20, Math.min(300, bpm))
ClampBPMUnclamped(x) == x

ClampBPM(x) == Max(20, Min(300, x))

\* ------------------------------------------------------------------------
\* Double-precision arithmetic of the times
\*
\* A time x >= 0 (seconds) is held as the natural number x * 2^80, in five
\* limbs of 20 bits, the least significant first.  This is exact for 0 and
\* for the doubles from 2^-28 up to 2^20 seconds.
\* ------------------------------------------------------------------------

Radix == 2^20

Pow2(n) == 2^n

RECURSIVE Bits(_)
Bits(n) == IF n = 0 THEN 0 ELSE 1 + Bits(n \div 2)

\* Number of bits of the number held in a
BitLength(a) ==
  IF a[5] > 0 THEN 80 + Bits(a[5])
  ELSE IF a[4] > 0 THEN 60 + Bits(a[4])
  ELSE IF a[3] > 0 THEN 40 + Bits(a[3])
  ELSE IF a[2] > 0 THEN 20 + Bits(a[2])
  ELSE Bits(a[1])

\* Exact sum
BigAdd(a, b) ==
  LET s1 == a[1] + b[1]
      s2 == a[2] + b[2] + s1 \div Radix
      s3 == a[3] + b[3] + s2 \div Radix
      s4 == a[4] + b[4] + s3 \div Radix
      s5 == a[5] + b[5] + s4 \div Radix
  IN <<s1 % Radix, s2 % Radix, s3 % Radix, s4 % Radix, s5>>

\* Exact difference a - b, b at most a
BigSub(a, b) ==
  LET d1 == a[1] - b[1]
      d2 == a[2] - b[2] - (IF d1 < 0 THEN 1 ELSE 0)
      d3 == a[3] - b[3] - (IF d2 < 0 THEN 1 ELSE 0)
      d4 == a[4] - b[4] - (IF d3 < 0 THEN 1 ELSE 0)
      d5 == a[5] - b[5] - (IF d4 < 0 THEN 1 ELSE 0)
  IN <<d1 % Radix, d2 % Radix, d3 % Radix, d4 % Radix, d5>>

\* Exact product with an integer n, 0 <= n < 2048
BigMul(a, n) ==
  LET p1 == a[1] * n
      p2 == a[2] * n + p1 \div Radix
      p3 == a[3] * n + p2 \div Radix
      p4 == a[4] * n + p3 \div Radix
      p5 == a[5] * n + p4 \div Radix
  IN <<p1 % Radix, p2 % Radix, p3 % Radix, p4 % Radix, p5>>

\* Exact quotient q and remainder r of a division by an integer d, 0 < d < 2048
BigDiv(a, d) ==
  LET n5 == a[5]
      n4 == (n5 % d) * Radix + a[4]
      n3 == (n4 % d) * Radix + a[3]
      n2 == (n3 % d) * Radix + a[2]
      n1 == (n2 % d) * Radix + a[1]
  IN [q |-> <<n1 \div d, n2 \div d, n3 \div d, n4 \div d, n5 \div d>>, r |-> n1 % d]

\* a < b for doubles: the operator < of the code
Less(a, b) ==
  \/ a[5] < b[5]
  \/ a[5] = b[5] /\ a[4] < b[4]
  \/ a[5] = b[5] /\ a[4] = b[4] /\ a[3] < b[3]
  \/ a[5] = b[5] /\ a[4] = b[4] /\ a[3] = b[3] /\ a[2] < b[2]
  \/ a[5] = b[5] /\ a[4] = b[4] /\ a[3] = b[3] /\ a[2] = b[2] /\ a[1] < b[1]

\* The double nearest to the number held in a, ties to even; sticky tells that
\* the exact value lies above a by less than one unit.  A number of at most 53
\* bits is a double as it is.
RoundToDouble(a, sticky) ==
  LET shift == BitLength(a) - 53
  IN IF shift <= 0 THEN a
     ELSE
       LET li == shift \div 20 + 1         \* the limb that holds the last kept bit
           bo == shift % 20                \* and the bit's place in it
           ulp == Pow2(bo)
           halfBit == IF bo > 0 THEN (a[li] \div Pow2(bo - 1)) % 2
                      ELSE a[li - 1] \div Pow2(19)
           belowHalf ==
             \/ sticky
             \/ \E i \in 1..(li - 2) : a[i] # 0
             \/ IF bo > 0
                THEN a[li] % Pow2(bo - 1) # 0 \/ (li > 1 /\ a[li - 1] # 0)
                ELSE a[li - 1] % Pow2(19) # 0
           odd == (a[li] \div ulp) % 2 = 1
           trunc == [i \in 1..5 |-> IF i < li THEN 0
                                    ELSE IF i = li THEN a[i] - (a[i] % ulp)
                                    ELSE a[i]]
           inc == [i \in 1..5 |-> IF i = li THEN ulp ELSE 0]
       IN IF halfBit = 1 /\ (belowHalf \/ odd) THEN BigAdd(trunc, inc) ELSE trunc

\* x + y of two doubles
DoubleAdd(x, y) == RoundToDouble(BigAdd(x, y), FALSE)

\* x - y of two doubles, y at most x
DoubleSub(x, y) == RoundToDouble(BigSub(x, y), FALSE)

\* x * n of a double and an integer, 0 <= n < 2048
DoubleMul(x, n) == RoundToDouble(BigMul(x, n), FALSE)

\* x / d of a double and an integer, the quotient at least 2^-26
DoubleDiv(x, d) == RoundToDouble(BigDiv(x, d).q, BigDiv(x, d).r # 0)

\* The double of a small integer
DoubleOf(n) == <<0, 0, 0, 0, n>>

\* The double nearest to ms / 1000: the clock reading, a literal such as 0.1
Seconds(ms) == DoubleDiv(DoubleOf(ms), 1000)

\* The whole number of milliseconds nearest to a double
Millis(x) ==
  LET m == BigMul(x, 1000)
  IN m[5] + (IF m[4] >= Pow2(19) THEN 1 ELSE 0)

\* Math.trunc of a double
Trunc(x) == x[5]

\* get16thDuration: 60 / bpm / 4
get16thDurationPerBeat(b) == DoubleDiv(DoubleOf(60), b)

get16thDuration(b) == DoubleDiv(DoubleDiv(DoubleOf(60), b), 4)

\* positionToSeconds: position * (60 / bpm / 4)
positionToSeconds(p, b) == DoubleMul(DoubleDiv(DoubleDiv(DoubleOf(60), b), 4), p)

\* The three states of the transport
Stopped == ~isPlaying /\ ~isPaused
Playing == isPlaying /\ ~isPaused
Paused == isPlaying /\ isPaused

\* ------------------------------------------------------------------------
\* Initial state
\* ------------------------------------------------------------------------

\* updateVisualPosition: if (now - lastVisualUpdate < 50) return
VisualUpdateInterval == 50

\* now - lastVisualUpdate after dt more milliseconds of wall-clock time, as far
\* as updateVisualPosition tells it apart
VisualAge(since, dt) == IF since + dt < VisualUpdateInterval THEN since + dt
                        ELSE VisualUpdateInterval

\* createDelay(2.0): the delay time in effect lies within [0, 2] seconds
DelayTimeParam(time) == Max(0, Min(2000, time))

\* initAudioEngine, initReverb, initDelay: the gains (hundredths), the delay
\* time (milliseconds) and the connections of the effects chain
InitNodes ==
  [masterGain |-> 70,
   reverbGain |-> 0,
   delayGain |-> 0,
   delayTime |-> DelayTimeParam(effectSettings.delay.time),
   feedbackGain |-> effectSettings.delay.feedback,
   paths |-> {<<"dryGain", "masterGain">>,
              <<"reverbNode", "reverbGain">>, <<"reverbGain", "masterGain">>,
              <<"delayNode", "feedbackGain">>, <<"feedbackGain", "delayNode">>,
              <<"delayNode", "delayGain">>, <<"delayGain", "masterGain">>,
              <<"metronomeGain", "masterGain">>, <<"drumGain", "masterGain">>}]

NoNote == [id |-> None, pitch |-> None, start |-> None, duration |-> None,
           velocity |-> None]
NoRun == [T0 |-> None, k |-> 0, clean |-> FALSE, bpmAt |-> None]
NoTick == [tick |-> -1, time |-> None, bpm |-> None]

Init ==
  /\ isPlaying = FALSE
  /\ isPaused = FALSE
  /\ position = 0
  /\ bpm = 120
  /\ loopEnabled = TRUE
  /\ metronomeEnabled = FALSE
  /\ recordEnabled = FALSE
  /\ schedulerTimer = FALSE
  /\ intervals = 0
  /\ dispatched = {}
  /\ nextScheduleTime = DoubleOf(0)
  /\ scheduledNotes = << >>
  /\ lastScheduledPosition = -1
  /\ notes = << >>
  /\ noteObj = [i \in NoteIds |-> NoNote]
  /\ nextNoteId = 1
  /\ playheadPosition = 0
  /\ selectedNotes = {}
  /\ hoveredNote = None
  /\ isDragging = FALSE
  /\ dragNote = None
  /\ dragStartX = 0
  /\ dragStartY = 0
  /\ pianoRollInstrument = "piano"
  /\ currentInstrument = "piano"
  /\ audioContext = TRUE
  /\ currentTime = 0
  /\ batch = << >>
  /\ stateCalls = << >>
  /\ run = NoRun
  /\ lastTick = NoTick
  /\ lastReported = None
  /\ sinceVisualUpdate = VisualUpdateInterval
  /\ ops = 0
  /\ pending = None
  /\ pattern = [l \in Range(DRUM_CONFIG.lanes) |-> {}]
  /\ laneStates = [l \in Range(DRUM_CONFIG.lanes) |->
                     [muted |-> FALSE, solo |-> FALSE, volume |-> 80]]
  /\ effectSettings = [reverb |-> [enabled |-> FALSE, mix |-> 30],
                       delay |-> [enabled |-> FALSE, time |-> 300, feedback |-> 40,
                                  mix |-> 25]]
  /\ fxNodes = InitNodes
  /\ liveVoices = << >>
  /\ rendered = << >>
  /\ thrown = FALSE

\* What a step that is not a scheduler invocation leaves in the observations.
Observe(calls) ==
  /\ batch' = << >>
  /\ stateCalls' = calls

CountOp ==
  /\ ops < MaxOps
  /\ ops' = ops + 1

\* ------------------------------------------------------------------------
\* audioEngine.js
\* ------------------------------------------------------------------------

\* The audio clock advances, and the wall clock with it; it exists once the
\* AudioContext has been created.
Elapse(dt) ==
  /\ UNCHANGED dispatched
  /\ audioContext
  /\ currentTime + dt <= MaxTime
  /\ currentTime' = currentTime + dt
  /\ sinceVisualUpdate' = VisualAge(sinceVisualUpdate, dt)
  /\ Observe(<< >>)
  /\ UNCHANGED <<transportVars, schedVars, rollVars, audioContext, fxNodes, run, lastTick,
                 lastReported, ops, recVars, restVars, thrown>>

\* if (!audioContext) initAudioEngine();
EnsureNodes == IF audioContext THEN fxNodes ELSE InitNodes

\* initAudioEngine: if (audioContext) return; otherwise it creates the
\* context and the effects chain
initAudioEngine ==
  /\ UNCHANGED dispatched
  /\ audioContext' = TRUE
  /\ fxNodes' = EnsureNodes
  /\ thrown' = FALSE
  /\ Observe(<< >>)
  /\ UNCHANGED <<transportVars, schedVars, rollVars, currentTime, run, lastTick, lastReported,
                 sinceVisualUpdate, ops, recVars, restVars>>

\* A startTime of null, where a double is expected
NoTime == << >>

\* The double of an argument given in milliseconds, None standing for null
TimeArg(ms) == IF ms = None THEN NoTime ELSE Seconds(ms)

\* playNote: actualStartTime = startTime || audioContext.currentTime, the
\* clock reading now (milliseconds)
ActualStartTime(startTime, now) ==
  IF startTime = NoTime \/ startTime = DoubleOf(0) THEN Seconds(now) ELSE startTime

\* playNote as the scheduler calls it: what it is called with and the onset
\* of the voice it starts, the times to the nearest millisecond
playNote(id, startTime, duration, now) ==
  [note |-> id,
   instrument |-> currentInstrument,
   pitch |-> noteObj[id].pitch,
   startTime |-> Millis(startTime),
   onset |-> Millis(ActualStartTime(startTime, now)),
   duration |-> Millis(duration),
   velocity |-> noteObj[id].velocity]

\* playMetronomeClick: the click it starts
playMetronomeClick(startTime, isDownbeat) ==
  [startTime |-> startTime, isDownbeat |-> isDownbeat]

\* ------------------------------------------------------------------------
\* audioEngine.js: instruments and voices
\*
\* The times of an instrument definition are in milliseconds (5 is the
\* literal 0.005), gains, velocities and sustain levels in hundredths, filter
\* Q in tenths; a product of two hundredths (an oscillator gain times a
\* velocity, a sustain level times a velocity) is in ten-thousandths, and so
\* is every value of an envelope.  The start and the duration of a voice and
\* the times of its envelope events are doubles.  A voice keeps the MIDI note
\* number its frequency is computed from.
\* ------------------------------------------------------------------------

Osc(type, detune, gain) == [type |-> type, detune |-> detune, gain |-> gain]
Env(attack, decay, sustain, release) ==
  [attack |-> attack, decay |-> decay, sustain |-> sustain, release |-> release]
Lowpass(frequency, q) == [type |-> "lowpass", frequency |-> frequency, Q |-> q]

\* An instrument definition without the filter property
NoFilter == [type |-> "none", frequency |-> 0, Q |-> 0]

INSTRUMENTS ==
  [piano |->
     [oscillators |-> <<Osc("triangle", 0, 60), Osc("sine", 1, 40)>>,
      envelope |-> Env(5, 300, 40, 500),
      filter |-> NoFilter, distortion |-> FALSE],
   pluck |->
     [oscillators |-> <<Osc("sawtooth", 0, 50), Osc("triangle", 2, 30)>>,
      envelope |-> Env(1, 150, 10, 200),
      filter |-> Lowpass(3000, 20), distortion |-> FALSE],
   saw |->
     [oscillators |-> <<Osc("sawtooth", 0, 40), Osc("sawtooth", 7, 30),
                        Osc("sawtooth", -7, 30)>>,
      envelope |-> Env(50, 100, 70, 200),
      filter |-> Lowpass(5000, 10), distortion |-> FALSE],
   pad |->
     [oscillators |-> <<Osc("sine", 0, 40), Osc("triangle", 5, 30), Osc("sine", -5, 30)>>,
      envelope |-> Env(400, 500, 80, 1000),
      filter |-> NoFilter, distortion |-> FALSE],
   bass |->
     [oscillators |-> <<Osc("sawtooth", 0, 60), Osc("sine", 0, 40)>>,
      envelope |-> Env(10, 200, 50, 150),
      filter |-> Lowpass(800, 30), distortion |-> FALSE],
   bell |->
     [oscillators |-> <<Osc("sine", 0, 50), Osc("sine", 1200, 30), Osc("sine", 2400, 20)>>,
      envelope |-> Env(1, 1000, 10, 1500),
      filter |-> NoFilter, distortion |-> FALSE],
   cleanGuitar |->
     [oscillators |-> <<Osc("triangle", 0, 50), Osc("sawtooth", 2, 20),
                        Osc("sine", 1200, 15)>>,
      envelope |-> Env(10, 300, 50, 400),
      filter |-> Lowpass(4000, 15), distortion |-> FALSE],
   distortedGuitar |->
     [oscillators |-> <<Osc("sawtooth", 0, 40), Osc("square", 5, 30),
                        Osc("sawtooth", -5, 30)>>,
      envelope |-> Env(10, 200, 70, 300),
      filter |-> Lowpass(3500, 20), distortion |-> TRUE],
   acousticGuitar |->
     [oscillators |-> <<Osc("triangle", 0, 40), Osc("sine", 0, 30),
                        Osc("triangle", 1200, 20), Osc("sine", 2400, 10)>>,
      envelope |-> Env(5, 400, 30, 600),
      filter |-> Lowpass(3000, 10), distortion |-> FALSE]]

\* INSTRUMENTS is an object literal: a property read INSTRUMENTS[id] with an
\* id that is none of its own keys finds the members it inherits from
\* Object.prototype, which are functions or objects and not undefined.
ObjectPrototypeKeys ==
  {"constructor", "toString", "toLocaleString", "valueOf", "hasOwnProperty",
   "isPrototypeOf", "propertyIsEnumerable", "__proto__",
   "__defineGetter__", "__defineSetter__", "__lookupGetter__", "__lookupSetter__"}

\* INSTRUMENTS[instrumentId] || INSTRUMENTS.piano: the key of the definition
\* used, or "inherited" for a member of Object.prototype, which has no
\* oscillators, envelope, filter or distortion property.
LookupInstrument(instrumentId) ==
  IF instrumentId \in DOMAIN INSTRUMENTS THEN instrumentId
  ELSE IF instrumentId \in ObjectPrototypeKeys THEN "inherited"
  ELSE "piano"

\* The five automation events playNote schedules on voiceGain.gain
SetValueAtTime(value, time) == [op |-> "setValueAtTime", value |-> value, time |-> time]
LinearRampToValueAtTime(value, time) ==
  [op |-> "linearRampToValueAtTime", value |-> value, time |-> time]

ADSR(envelope, startTime, duration, velocity) ==
  LET attackEnd == DoubleAdd(startTime, Seconds(envelope.attack))
      decayEnd == DoubleAdd(attackEnd, Seconds(envelope.decay))
      sustainLevel == envelope.sustain * velocity
      releaseStart == DoubleAdd(startTime, duration)
      releaseEnd == DoubleAdd(releaseStart, Seconds(envelope.release))
  IN <<SetValueAtTime(0, startTime),
       LinearRampToValueAtTime(velocity * 100, attackEnd),
       LinearRampToValueAtTime(sustainLevel, decayEnd),
       SetValueAtTime(sustainLevel, releaseStart),
       LinearRampToValueAtTime(0, releaseEnd)>>

\* instrument.oscillators.forEach: the oscillators of a voice with their gains
VoiceOscillators(instrument, velocity) ==
  [i \in DOMAIN instrument.oscillators |->
     [type |-> instrument.oscillators[i].type,
      detune |-> instrument.oscillators[i].detune,
      gain |-> instrument.oscillators[i].gain * velocity]]

\* The buses playNote connects voiceGain to
VoiceBusesDryOnly(settings) == {"dry"}

VoiceBuses(settings) ==
  {"dry"} \cup (IF settings.reverb.enabled THEN {"reverb"} ELSE {})
          \cup (IF settings.delay.enabled THEN {"delay"} ELSE {})

\* The nodes playNote creates for a voice: an oscillator and a gain node for
\* each oscillator definition, the voice gain, and the filter and the wave
\* shaper if the instrument has them
VoiceNodes(instrument) ==
  {<<"osc", i>> : i \in DOMAIN instrument.oscillators}
    \cup {<<"oscGain", i>> : i \in DOMAIN instrument.oscillators}
    \cup {<<"voiceGain", 1>>}
    \cup (IF instrument.filter.type # "none" THEN {<<"filterNode", 1>>} ELSE {})
    \cup (IF instrument.distortion THEN {<<"distortionNode", 1>>} ELSE {})

\* (releaseEnd - audioContext.currentTime + 0.2) * 1000, the delay that
\* setTimeout takes as a whole number of milliseconds, a negative one as 0
CleanupDelay(releaseEnd, clock) ==
  IF ~Less(releaseEnd, clock)
  THEN Trunc(DoubleMul(DoubleAdd(DoubleSub(releaseEnd, clock), Seconds(200)), 1000))
  ELSE LET behind == DoubleSub(clock, releaseEnd)
       IN IF Less(Seconds(200), behind) THEN 0
          ELSE Trunc(DoubleMul(DoubleSub(Seconds(200), behind), 1000))

\* setTimeout(cleanup, (releaseEnd - currentTime + 0.2) * 1000) at the clock
\* reading now: the clock value (milliseconds) at which the timeout is due,
\* the wall clock in step with the audio clock
CleanupDue(envelope, actualStartTime, duration, now) ==
  LET releaseEnd == DoubleAdd(DoubleAdd(actualStartTime, duration),
                              Seconds(envelope.release))
  IN now + CleanupDelay(releaseEnd, Seconds(now))

\* The voice playNote builds from an instrument definition, startTime a
\* double or null, duration a double, the clock reading now (milliseconds).
\* The voice keeps the startTime it was called with to the nearest
\* millisecond (None for null), its actual start and its duration.
RealtimeVoice(instrumentId, midiNote, startTime, duration, velocity, now) ==
  LET key == LookupInstrument(instrumentId)
      instrument == INSTRUMENTS[key]
      actualStartTime == ActualStartTime(startTime, now)
  IN [instrumentId |-> instrumentId,
      instrument |-> key,
      midiNote |-> midiNote,
      startTime |-> IF startTime = NoTime THEN None ELSE Millis(startTime),
      start |-> actualStartTime,
      duration |-> duration,
      velocity |-> velocity,
      oscillators |-> VoiceOscillators(instrument, velocity),
      filter |-> instrument.filter,
      distortion |-> instrument.distortion,
      buses |-> VoiceBuses(effectSettings),
      envelope |-> ADSR(instrument.envelope, actualStartTime, duration, velocity),
      disconnects |-> [node \in VoiceNodes(instrument) |-> 0],
      cleanupAt |-> CleanupDue(instrument.envelope, actualStartTime, duration, now),
      cleaned |-> FALSE,
      stopped |-> FALSE]

\* playNote: the voices there are after the call.  With a member of
\* Object.prototype for instrument, instrument.oscillators is undefined and
\* instrument.oscillators.forEach throws before anything is connected.
PlayNoteThrows(instrumentId) == LookupInstrument(instrumentId) = "inherited"

VoicesAfterPlayNote(voices, instrumentId, midiNote, startTime, duration, velocity, now) ==
  IF PlayNoteThrows(instrumentId) THEN voices
  ELSE Append(voices,
              RealtimeVoice(instrumentId, midiNote, startTime, duration, velocity, now))

\* AudioEngine.playNote called from outside the scheduler, startTime and
\* duration given in milliseconds, None for a startTime of null.
AudioEngine_playNote(instrumentId, midiNote, startTime, duration, velocity) ==
  /\ UNCHANGED dispatched
  /\ CountOp
  /\ Len(liveVoices) < MaxVoices
  /\ audioContext' = TRUE
  /\ fxNodes' = EnsureNodes
  /\ thrown' = PlayNoteThrows(instrumentId)
  /\ liveVoices' = VoicesAfterPlayNote(liveVoices, instrumentId, midiNote,
                                       TimeArg(startTime), Seconds(duration),
                                       velocity, currentTime)
  /\ Observe(<< >>)
  /\ UNCHANGED <<transportVars, schedVars, rollVars, currentTime, run, lastTick,
                 lastReported, sinceVisualUpdate, recVars, drumVars, effectSettings, rendered>>

\* cleanup: the nodes it calls disconnect() on, which are the oscillators,
\* voiceGain, filterNode and distortionNode
CleanupDisconnects(node) == node[1] \in {"osc", "voiceGain", "filterNode", "distortionNode"}

\* The timeout of the i-th voice fires and runs cleanup.
cleanup(i) ==
  /\ UNCHANGED dispatched
  /\ i \in DOMAIN liveVoices
  /\ ~liveVoices[i].cleaned
  /\ currentTime >= liveVoices[i].cleanupAt
  /\ liveVoices' =
       [liveVoices EXCEPT
          ![i].cleaned = TRUE,
          ![i].disconnects =
             [node \in DOMAIN liveVoices[i].disconnects |->
                IF CleanupDisconnects(node) THEN liveVoices[i].disconnects[node] + 1
                ELSE liveVoices[i].disconnects[node]]]
  /\ thrown' = FALSE
  /\ Observe(<< >>)
  /\ UNCHANGED <<transportVars, schedVars, rollVars, engineVars, run, lastTick,
                 lastReported, sinceVisualUpdate, ops, recVars, drumVars, effectSettings, rendered>>

\* stop() of the handle playNote returned, without a time: the envelope after
\* it.  stopTime is the clock reading; cancelScheduledValues(stopTime) removes
\* the events at stopTime or later, the gain is held at the value
\* voiceGain.gain.value has and ramps to 0 within 0.05 s.  That value is the 0
\* playNote assigned when it created the gain if no event lies before
\* stopTime, and the value the automation has reached (None, which the model
\* does not compute) otherwise.
StoppedEnvelope(envelope, now) ==
  LET stopTime == Seconds(now)
      kept == SelectSeq(envelope, LAMBDA e : Less(e.time, stopTime))
      value == IF kept = << >> THEN 0 ELSE None
  IN kept \o <<SetValueAtTime(value, stopTime),
               LinearRampToValueAtTime(0, DoubleAdd(stopTime, Seconds(50)))>>

\* stop() of the handle playNote returned for the i-th voice.  No node is
\* disconnected and the timeout is left as it is.
voiceStop(i) ==
  /\ UNCHANGED dispatched
  /\ CountOp
  /\ i \in DOMAIN liveVoices
  /\ liveVoices' =
       [liveVoices EXCEPT
          ![i].stopped = TRUE,
          ![i].envelope = StoppedEnvelope(liveVoices[i].envelope, currentTime)]
  /\ thrown' = FALSE
  /\ Observe(<< >>)
  /\ UNCHANGED <<transportVars, schedVars, rollVars, engineVars, run, lastTick,
                 lastReported, sinceVisualUpdate, recVars, drumVars, effectSettings, rendered>>

\* playPreviewNote: playNote(instrumentId, midiNote, null, 0.2, 0.6)
playPreviewNote(instrumentId, midiNote) ==
  AudioEngine_playNote(instrumentId, midiNote, None, 200, 60)

\* { ...effectSettings[effect], ...settings }
Merge(old, settings) ==
  [k \in DOMAIN old \cup DOMAIN settings |->
     IF k \in DOMAIN settings THEN settings[k] ELSE old[k]]

\* updateEffectSettings: the parameters it derives from the merged settings
WetGain(setting) == IF setting.enabled THEN setting.mix ELSE 0

\* updateEffectSettings: the nodes' parameters after the call, es the merged
\* settings; an effect other than 'reverb' and 'delay' has no branch
EffectNodes(nodes, es, effect) ==
  IF effect = "reverb"
  THEN [nodes EXCEPT !.reverbGain = WetGain(es.reverb)]
  ELSE IF effect = "delay"
  THEN [nodes EXCEPT !.delayGain = WetGain(es.delay),
                     !.delayTime = DelayTimeParam(es.delay.time),
                     !.feedbackGain = es.delay.feedback]
  ELSE nodes

\* effectSettings[effect] = { ...effectSettings[effect], ...settings }: an
\* effect the settings do not hold yet becomes a property of them, except
\* '__proto__', whose assignment sets the prototype of the settings object
\* and adds no property
MergedSettings(es, effect, settings) ==
  IF effect \in DOMAIN es
  THEN [es EXCEPT ![effect] = Merge(@, settings)]
  ELSE IF effect = "__proto__"
  THEN es
  ELSE [k \in DOMAIN es \cup {effect} |-> IF k = effect THEN settings ELSE es[k]]

\* updateEffectSettings.  Before initAudioEngine reverbGain and delayGain are
\* null: the settings are merged, then the branch of 'reverb' or of 'delay'
\* throws on reading .gain of null.
updateEffectSettings(effect, settings) ==
  /\ UNCHANGED dispatched
  /\ CountOp
  /\ effectSettings' = MergedSettings(effectSettings, effect, settings)
  /\ IF ~audioContext /\ effect \in {"reverb", "delay"}
     THEN /\ thrown' = TRUE
          /\ UNCHANGED fxNodes
     ELSE /\ thrown' = FALSE
          /\ fxNodes' = IF audioContext
                        THEN EffectNodes(fxNodes, effectSettings', effect)
                        ELSE fxNodes
  /\ Observe(<< >>)
  /\ UNCHANGED <<transportVars, schedVars, rollVars, audioContext, currentTime, run,
                 lastTick, lastReported, sinceVisualUpdate, recVars, drumVars, liveVoices,
                 rendered>>

\* setMasterVolume: Math.max(0, Math.min(1, value)), if masterGain exists
setMasterVolume(value) ==
  /\ UNCHANGED dispatched
  /\ CountOp
  /\ fxNodes' = IF audioContext
                THEN [fxNodes EXCEPT !.masterGain = Max(0, Min(100, value))]
                ELSE fxNodes
  /\ thrown' = FALSE
  /\ Observe(<< >>)
  /\ UNCHANGED <<transportVars, schedVars, rollVars, audioContext, currentTime, run,
                 lastTick, lastReported, sinceVisualUpdate, recVars, drumVars, effectSettings,
                 liveVoices, rendered>>

\* AudioEngine.playMetronomeClick called from outside the scheduler: it
\* returns at once without an AudioContext, and builds a click otherwise.
AudioEngine_playMetronomeClick(startTime, isDownbeat) ==
  /\ UNCHANGED dispatched
  /\ CountOp
  /\ thrown' = FALSE
  /\ Observe(<< >>)
  /\ UNCHANGED <<transportVars, schedVars, rollVars, engineVars, run, lastTick,
                 lastReported, sinceVisualUpdate, recVars, drumVars, effectSettings,
                 liveVoices, rendered>>

RECURSIVE Repeat(_, _)
Repeat(seq, n) == IF n = 0 THEN << >> ELSE seq \o Repeat(seq, n - 1)

\* The buses renderToBuffer connects a voice to
OfflineBuses(settings) ==
  {"master"} \cup (IF settings.reverb.enabled THEN {"reverb"} ELSE {})
             \cup (IF settings.delay.enabled THEN {"delay"} ELSE {})

\* renderToBuffer: the voice it builds for a note.  It creates no wave
\* shaper, and it schedules the five envelope events inside the loop over the
\* instrument's oscillators, once for each of them.
OfflineVoice(note, instrumentId, b) ==
  LET key == LookupInstrument(instrumentId)
      instrument == INSTRUMENTS[key]
      secondsPerBeat == DoubleDiv(DoubleOf(60), b)
      secondsPer16th == DoubleDiv(secondsPerBeat, 4)
      startTime == DoubleMul(secondsPer16th, note.start)
      noteDuration == DoubleMul(secondsPer16th, note.duration)
      velocity == IF note.velocity = 0 THEN 80 ELSE note.velocity
  IN [instrumentId |-> instrumentId,
      instrument |-> key,
      midiNote |-> note.pitch,
      startTime |-> Millis(startTime),
      start |-> startTime,
      duration |-> noteDuration,
      velocity |-> velocity,
      oscillators |-> VoiceOscillators(instrument, velocity),
      filter |-> instrument.filter,
      distortion |-> FALSE,
      buses |-> OfflineBuses(effectSettings),
      envelope |-> Repeat(ADSR(instrument.envelope, startTime, noteDuration, velocity),
                          Len(instrument.oscillators))]

\* renderToBuffer(notes, instrumentId, bpm, duration): it needs no
\* AudioContext.  With a member of Object.prototype for instrument the first
\* note makes instrument.oscillators.forEach throw: the promise is rejected.
renderToBuffer(renderNotes, instrumentId, b) ==
  /\ UNCHANGED dispatched
  /\ CountOp
  /\ IF LookupInstrument(instrumentId) = "inherited" /\ renderNotes # << >>
     THEN /\ thrown' = TRUE
          /\ rendered' = << >>
     ELSE /\ thrown' = FALSE
          /\ rendered' = [i \in DOMAIN renderNotes |->
                            OfflineVoice(renderNotes[i], instrumentId, b)]
  /\ Observe(<< >>)
  /\ UNCHANGED <<transportVars, schedVars, rollVars, engineVars, run, lastTick,
                 lastReported, sinceVisualUpdate, recVars, drumVars, effectSettings,
                 liveVoices>>

\* const DRUM_TYPES, the keys of drumBuffers after generateDrumSamples
DRUM_TYPES == <<"kick", "snare", "hihat", "clap">>

\* playDrum: it creates the engine if needed and returns after a warning
\* when there is no buffer of the type, starting a buffer source otherwise.
\* drumBuffers is an object literal: for a type that names a member of
\* Object.prototype drumBuffers[drumType] is that member, the guard
\* if (!buffer) lets it pass, and source.buffer = buffer throws a TypeError,
\* the member being no AudioBuffer.
playDrum(drumType, startTime, velocity) ==
  /\ UNCHANGED dispatched
  /\ CountOp
  /\ audioContext' = TRUE
  /\ fxNodes' = EnsureNodes
  /\ thrown' = (drumType \in ObjectPrototypeKeys)
  /\ Observe(<< >>)
  /\ UNCHANGED <<transportVars, schedVars, rollVars, currentTime, run, lastTick,
                 lastReported, sinceVisualUpdate, recVars, drumVars, effectSettings,
                 liveVoices, rendered>>

\* playDrumPreview: playDrum(drumType, null, 0.7)
playDrumPreview(drumType) == playDrum(drumType, None, 70)

\* ------------------------------------------------------------------------
\* pianoRoll.js
\* ------------------------------------------------------------------------

\* getAllNotes: a copy of the array; the note objects are shared
getAllNotes == notes

RemoveAt(seq, i) == SubSeq(seq, 1, i - 1) \o SubSeq(seq, i + 1, Len(seq))

\* drawNote: color = noteColors[pianoRollInstrument] || '#5865f2' is a
\* function or an object, and no string, for a name that the object literal
\* noteColors inherits from Object.prototype.  The border of a note that is
\* not selected takes darkenColor(color, 20), which calls color.replace and
\* throws (and so does lightenColor for its fill, if it is hovered).
drawNoteThrows(instrument, selected, id) ==
  instrument \in ObjectPrototypeKeys /\ id \notin selected

\* render: notes.forEach(drawNote), with the list ns of the objects objs, the
\* selection and the instrument as they are when it is called
RenderThrows(ns, objs, selected, instrument) ==
  \E i \in DOMAIN ns : drawNoteThrows(instrument, selected, objs[ns[i]].id)

\* The note objects created so far, and the place of the next one.  An object
\* stays where it is when its note is removed from the list: a snapshot or a
\* gesture may still hold it.
NextObject == Cardinality({h \in NoteIds : noteObj[h] # NoNote}) + 1

\* generateNoteId: `note_${nextNoteId++}`; the id is held as its number.
generateNoteId ==
  /\ UNCHANGED dispatched
  /\ CountOp
  /\ nextNoteId' = nextNoteId + 1
  /\ thrown' = FALSE
  /\ Observe(<< >>)
  /\ UNCHANGED <<transportVars, schedVars, notes, noteObj, playheadPosition, editVars,
                 engineVars, run, lastTick, lastReported, sinceVisualUpdate, recVars, restVars>>

\* addNote: the arguments for which it returns null
addNoteRejects(pitch, start) ==
  \/ pitch < PIANO_ROLL_CONFIG.minNote \/ pitch > PIANO_ROLL_CONFIG.maxNote
  \/ start < 0 \/ start >= totalLength

\* addNote: the note it pushes.  Velocities are held in hundredths: 80 is 0.8.
newNote(pitch, start, duration, velocity) ==
  [id |-> nextNoteId, pitch |-> pitch, start |-> start,
   duration |-> Min(duration, totalLength - start),
   velocity |-> velocity]

\* addNote: what it does to the note list
AddNoteEffect(pitch, start, duration, velocity) ==
  IF addNoteRejects(pitch, start)
  THEN UNCHANGED <<notes, noteObj, nextNoteId>>
  ELSE /\ noteObj' = [noteObj EXCEPT ![NextObject] = newNote(pitch, start, duration, velocity)]
       /\ notes' = Append(notes, NextObject)
       /\ nextNoteId' = nextNoteId + 1

\* addNote: whether the render() that follows the push throws, so that the
\* call does not return the note
AddNoteThrows(pitch, start, duration, velocity) ==
  /\ ~addNoteRejects(pitch, start)
  /\ RenderThrows(Append(notes, NextObject),
                  [noteObj EXCEPT ![NextObject] = newNote(pitch, start, duration, velocity)],
                  selectedNotes, pianoRollInstrument)

addNote(pitch, start, duration, velocity) ==
  /\ UNCHANGED dispatched
  /\ CountOp
  /\ NextObject <= MaxNotes
  /\ AddNoteEffect(pitch, start, duration, velocity)
  /\ thrown' = AddNoteThrows(pitch, start, duration, velocity)
  /\ Observe(<< >>)
  /\ UNCHANGED <<transportVars, schedVars, playheadPosition, editVars, engineVars, run,
                 lastTick, lastReported, sinceVisualUpdate, recVars, restVars>>

\* notes.findIndex(n => n.id === noteId): 0 stands for -1
IndexOfId(noteId) ==
  LET found == {i \in DOMAIN notes : noteObj[notes[i]].id = noteId}
  IN IF found = {} THEN 0 ELSE CHOOSE i \in found : \A j \in found : i <= j

\* removeNote: what it does to the note list and the selection, and whether
\* its render() throws; the note that recordNote inserted is no longer awaited
\* once it has left the list.
RemoveNoteEffect(noteId) ==
  LET index == IndexOfId(noteId)
  IN IF index # 0
     THEN /\ notes' = RemoveAt(notes, index)
          /\ selectedNotes' = selectedNotes \ {noteId}
          /\ pending' = IF notes[index] = pending THEN None ELSE pending
          /\ thrown' = RenderThrows(RemoveAt(notes, index), noteObj,
                                    selectedNotes \ {noteId}, pianoRollInstrument)
     ELSE /\ thrown' = FALSE
          /\ UNCHANGED <<notes, selectedNotes, pending>>

removeNote(noteId) ==
  /\ UNCHANGED dispatched
  /\ CountOp
  /\ RemoveNoteEffect(noteId)
  /\ Observe(<< >>)
  /\ UNCHANGED <<transportVars, schedVars, noteObj, nextNoteId, playheadPosition,
                 hoveredNote, mouseVars, instVars,
                 engineVars, run, lastTick, lastReported, sinceVisualUpdate, recordEnabled, restVars>>

\* removeSelectedNotes: notes.filter(n => !selectedNotes.has(n.id))
removeSelectedNotes ==
  /\ UNCHANGED dispatched
  /\ CountOp
  /\ notes' = SelectSeq(notes, LAMBDA h : noteObj[h].id \notin selectedNotes)
  /\ selectedNotes' = {}
  /\ pending' = IF pending \in Range(notes') THEN pending ELSE None
  /\ thrown' = RenderThrows(notes', noteObj, {}, pianoRollInstrument)
  /\ Observe(<< >>)
  /\ UNCHANGED <<transportVars, schedVars, noteObj, nextNoteId, playheadPosition,
                 hoveredNote, mouseVars, instVars,
                 engineVars, run, lastTick, lastReported, sinceVisualUpdate, recordEnabled, restVars>>

clearAllNotes ==
  /\ UNCHANGED dispatched
  /\ CountOp
  /\ notes' = << >>
  /\ selectedNotes' = {}
  /\ hoveredNote' = None
  /\ pending' = None
  /\ thrown' = RenderThrows(<< >>, noteObj, {}, pianoRollInstrument)
  /\ Observe(<< >>)
  /\ UNCHANGED <<transportVars, schedVars, noteObj, nextNoteId, playheadPosition,
                 mouseVars, instVars,
                 engineVars, run, lastTick, lastReported, sinceVisualUpdate, recordEnabled, restVars>>

\* setAllNotes: newNotes.map(n => ({ ...n, id: n.id || generateNoteId() })).
\* The notes of the list are new objects, whatever their fields hold.
SetAllNotesEffect(newNotes) ==
  /\ NextObject + Len(newNotes) - 1 <= MaxNotes
  /\ LET generated(i) == Cardinality({j \in 1..i : newNotes[j].id = None})
         copy(i) == [newNotes[i] EXCEPT
                       !.id = IF @ # None THEN @ ELSE nextNoteId + generated(i) - 1]
     IN /\ noteObj' = [h \in NoteIds |->
                         IF h >= NextObject /\ h < NextObject + Len(newNotes)
                         THEN copy(h - NextObject + 1) ELSE noteObj[h]]
        /\ notes' = [i \in DOMAIN newNotes |-> NextObject + i - 1]
        /\ nextNoteId' = nextNoteId + generated(Len(newNotes))
  /\ selectedNotes' = {}

setAllNotes(newNotes) ==
  /\ UNCHANGED dispatched
  /\ CountOp
  /\ SetAllNotesEffect(newNotes)
  /\ pending' = None
  /\ thrown' = RenderThrows(notes', noteObj', {}, pianoRollInstrument)
  /\ Observe(<< >>)
  /\ UNCHANGED <<transportVars, schedVars, playheadPosition, hoveredNote, mouseVars,
                 instVars, engineVars, run, lastTick, lastReported, sinceVisualUpdate,
                 recordEnabled, restVars>>

\* selectNote: the selection after it
SelectedAfter(selected, noteId, toggle) ==
  IF toggle
  THEN IF noteId \in selected THEN selected \ {noteId} ELSE selected \cup {noteId}
  ELSE {noteId}

selectNote(noteId, toggle) ==
  /\ UNCHANGED dispatched
  /\ CountOp
  /\ selectedNotes' = SelectedAfter(selectedNotes, noteId, toggle)
  /\ thrown' = RenderThrows(notes, noteObj, selectedNotes', pianoRollInstrument)
  /\ Observe(<< >>)
  /\ UNCHANGED <<transportVars, schedVars, notes, noteObj, nextNoteId, playheadPosition,
                 hoveredNote, mouseVars, instVars,
                 engineVars, run, lastTick, lastReported, sinceVisualUpdate, recVars, restVars>>

clearSelection ==
  /\ UNCHANGED dispatched
  /\ CountOp
  /\ selectedNotes' = {}
  /\ thrown' = RenderThrows(notes, noteObj, {}, pianoRollInstrument)
  /\ Observe(<< >>)
  /\ UNCHANGED <<transportVars, schedVars, notes, noteObj, nextNoteId, playheadPosition,
                 hoveredNote, mouseVars, instVars,
                 engineVars, run, lastTick, lastReported, sinceVisualUpdate, recVars, restVars>>

\* PianoRoll.setPlayheadPosition: playheadPosition = position; render()
setPlayheadPosition(pos) ==
  /\ UNCHANGED dispatched
  /\ CountOp
  /\ playheadPosition' = pos
  /\ thrown' = RenderThrows(notes, noteObj, selectedNotes, pianoRollInstrument)
  /\ Observe(<< >>)
  /\ UNCHANGED <<transportVars, schedVars, notes, noteObj, nextNoteId, editVars,
                 engineVars, run, lastTick, lastReported, sinceVisualUpdate, recVars, restVars>>

\* PianoRoll.setCurrentInstrument: pianoRollInstrument = instrument; render()
setCurrentInstrument(instrument) ==
  /\ UNCHANGED dispatched
  /\ CountOp
  /\ pianoRollInstrument' = instrument
  /\ thrown' = RenderThrows(notes, noteObj, selectedNotes, instrument)
  /\ Observe(<< >>)
  /\ UNCHANGED <<transportVars, schedVars, notes, noteObj, nextNoteId, playheadPosition,
                 selVars, mouseVars, currentInstrument,
                 engineVars, run, lastTick, lastReported, sinceVisualUpdate, recVars, restVars>>

\* ui.js, the change handler of the instrument selector: currentInstrument =
\* e.target.value; PianoRoll.setCurrentInstrument(currentInstrument)
selectInstrument(instrument) ==
  /\ UNCHANGED dispatched
  /\ CountOp
  /\ currentInstrument' = instrument
  /\ pianoRollInstrument' = instrument
  /\ thrown' = RenderThrows(notes, noteObj, selectedNotes, instrument)
  /\ Observe(<< >>)
  /\ UNCHANGED <<transportVars, schedVars, notes, noteObj, nextNoteId, playheadPosition,
                 selVars, mouseVars,
                 engineVars, run, lastTick, lastReported, sinceVisualUpdate, recVars, restVars>>

\* getNoteAt: the first note of the list that covers the cell, None for null
getNoteAt(pitch, time) ==
  LET at == {i \in DOMAIN notes :
               /\ noteObj[notes[i]].pitch = pitch
               /\ time >= noteObj[notes[i]].start
               /\ time < noteObj[notes[i]].start + noteObj[notes[i]].duration}
  IN IF at = {} THEN None ELSE notes[CHOOSE i \in at : \A j \in at : i <= j]

\* handleMouseDown with the left button at the cell (time, pitch).  On a note
\* it selects the note and then binds it to the gesture, which an exception
\* of selectNote's render() does not reach.  On an empty cell it adds a note,
\* selects it and plays the preview: an exception of addNote's render() leaves
\* the note in the list, not selected and without preview, one of selectNote's
\* render() leaves out the preview.
handleMouseDown(time, pitch, ctrlKey) ==
  /\ UNCHANGED dispatched
  /\ CountOp
  /\ LET existingNote == getNoteAt(pitch, time)
     IN IF existingNote # None
        THEN /\ selectedNotes' =
                  SelectedAfter(selectedNotes, noteObj[existingNote].id, ctrlKey)
             /\ thrown' = RenderThrows(notes, noteObj, selectedNotes', pianoRollInstrument)
             /\ IF thrown'
                THEN UNCHANGED mouseVars
                ELSE /\ isDragging' = TRUE
                     /\ dragNote' = existingNote
                     /\ dragStartX' = time
                     /\ dragStartY' = pitch
             /\ UNCHANGED <<notes, noteObj, nextNoteId, audioContext, fxNodes,
                            liveVoices>>
        ELSE /\ NextObject <= MaxNotes
             /\ AddNoteEffect(pitch, time, 4, 80)
             /\ IF addNoteRejects(pitch, time)
                THEN /\ thrown' = FALSE
                     /\ UNCHANGED <<selectedNotes, audioContext, fxNodes, liveVoices>>
                ELSE IF AddNoteThrows(pitch, time, 4, 80)
                THEN /\ thrown' = TRUE
                     /\ UNCHANGED <<selectedNotes, audioContext, fxNodes, liveVoices>>
                ELSE /\ selectedNotes' = {nextNoteId}
                     /\ IF RenderThrows(notes', noteObj', {nextNoteId}, pianoRollInstrument)
                        THEN /\ thrown' = TRUE
                             /\ UNCHANGED <<audioContext, fxNodes, liveVoices>>
                        ELSE /\ audioContext' = TRUE
                             /\ fxNodes' = EnsureNodes
                             /\ thrown' = PlayNoteThrows(pianoRollInstrument)
                             /\ liveVoices' =
                                  VoicesAfterPlayNote(liveVoices, pianoRollInstrument,
                                                      pitch, NoTime, Seconds(200), 60,
                                                      currentTime)
             /\ UNCHANGED mouseVars
  /\ Observe(<< >>)
  /\ UNCHANGED <<transportVars, schedVars, playheadPosition, hoveredNote, instVars,
                 currentTime, run, lastTick, lastReported, sinceVisualUpdate, recVars, drumVars,
                 effectSettings, rendered>>

\* handleMouseMove at the cell (time, pitch): the note under the pointer is
\* hovered, with a render() if that is a change, and the note object bound to
\* the gesture gets the new start and pitch, if the note still ends within the
\* arrangement, with a render() after the assignments.  An exception of the
\* first render() leaves the gesture as it is.
handleMouseMove(time, pitch) ==
  /\ UNCHANGED dispatched
  /\ CountOp
  /\ LET noteAtPosition == getNoteAt(pitch, time)
         newHoveredNote == IF noteAtPosition # None THEN noteObj[noteAtPosition].id
                           ELSE None
         deltaX == time - dragStartX
         deltaY == pitch - dragStartY
         newStart == Max(0, noteObj[dragNote].start + deltaX)
         newPitch == Max(PIANO_ROLL_CONFIG.minNote,
                         Min(PIANO_ROLL_CONFIG.maxNote, noteObj[dragNote].pitch + deltaY))
     IN /\ hoveredNote' = newHoveredNote
        /\ IF /\ newHoveredNote # hoveredNote
              /\ RenderThrows(notes, noteObj, selectedNotes, pianoRollInstrument)
           THEN /\ thrown' = TRUE
                /\ UNCHANGED <<noteObj, dragStartX, dragStartY>>
           ELSE IF /\ isDragging /\ dragNote # None
                   /\ (deltaX # 0 \/ deltaY # 0)
                   /\ newStart + noteObj[dragNote].duration <= totalLength
           THEN /\ noteObj' = [noteObj EXCEPT ![dragNote].start = newStart,
                                              ![dragNote].pitch = newPitch]
                /\ dragStartX' = time
                /\ dragStartY' = pitch
                /\ thrown' = RenderThrows(notes, noteObj', selectedNotes,
                                          pianoRollInstrument)
           ELSE /\ thrown' = FALSE
                /\ UNCHANGED <<noteObj, dragStartX, dragStartY>>
  /\ Observe(<< >>)
  /\ UNCHANGED <<transportVars, schedVars, notes, nextNoteId, playheadPosition,
                 selectedNotes, isDragging, dragNote, instVars,
                 engineVars, run, lastTick, lastReported, sinceVisualUpdate, recVars, restVars>>

handleMouseUp ==
  /\ UNCHANGED dispatched
  /\ CountOp
  /\ isDragging' = FALSE
  /\ dragNote' = None
  /\ thrown' = FALSE
  /\ Observe(<< >>)
  /\ UNCHANGED <<transportVars, schedVars, notes, noteObj, nextNoteId, playheadPosition,
                 selVars, dragStartX, dragStartY, instVars,
                 engineVars, run, lastTick, lastReported, sinceVisualUpdate, recVars, restVars>>

\* handleMouseLeave: if (hoveredNote) { hoveredNote = null; render(); }
handleMouseLeave ==
  /\ UNCHANGED dispatched
  /\ CountOp
  /\ IF hoveredNote # None
     THEN /\ hoveredNote' = None
          /\ thrown' = RenderThrows(notes, noteObj, selectedNotes, pianoRollInstrument)
     ELSE /\ thrown' = FALSE
          /\ UNCHANGED hoveredNote
  /\ Observe(<< >>)
  /\ UNCHANGED <<transportVars, schedVars, notes, noteObj, nextNoteId, playheadPosition,
                 selectedNotes, mouseVars, instVars,
                 engineVars, run, lastTick, lastReported, sinceVisualUpdate, recVars, restVars>>

\* handleContextMenu at the cell (time, pitch): removeNote of the note there
handleContextMenu(time, pitch) ==
  /\ UNCHANGED dispatched
  /\ CountOp
  /\ LET existingNote == getNoteAt(pitch, time)
     IN IF existingNote # None
        THEN RemoveNoteEffect(noteObj[existingNote].id)
        ELSE /\ thrown' = FALSE
             /\ UNCHANGED <<notes, selectedNotes, pending>>
  /\ Observe(<< >>)
  /\ UNCHANGED <<transportVars, schedVars, noteObj, nextNoteId, playheadPosition,
                 hoveredNote, mouseVars, instVars,
                 engineVars, run, lastTick, lastReported, sinceVisualUpdate, recordEnabled, restVars>>

\* ------------------------------------------------------------------------
\* drumMachine.js
\* ------------------------------------------------------------------------

\* pattern[laneId].has / add / delete / clear: for a name that is no lane
\* pattern[laneId] is undefined or a member of Object.prototype, neither of
\* which has the method, and the call throws
NoLaneSet(laneId) == laneId \notin DOMAIN pattern

\* laneStates[laneId].muted / solo / volume: for a name that is no lane and
\* no member of Object.prototype laneStates[laneId] is undefined and the
\* access throws; on a member of Object.prototype it is a property of that
\* object which is read and written, not a lane's state
NoLaneState(laneId) ==
  laneId \notin DOMAIN laneStates /\ laneId \notin ObjectPrototypeKeys

toggleHit(laneId, step) ==
  /\ UNCHANGED dispatched
  /\ CountOp
  /\ IF step < 0 \/ step >= DRUM_CONFIG.stepsPerBar * DRUM_CONFIG.totalBars
     THEN /\ pattern' = pattern
          /\ thrown' = FALSE
     ELSE /\ thrown' = NoLaneSet(laneId)
          /\ pattern' = IF thrown' THEN pattern
                        ELSE [pattern EXCEPT ![laneId] =
                                IF step \in @ THEN @ \ {step} ELSE @ \cup {step}]
  /\ Observe(<< >>)
  /\ UNCHANGED <<transportVars, schedVars, rollVars, engineVars, run, lastTick,
                 lastReported, sinceVisualUpdate, recVars, laneStates, fxVars>>

\* addHit: pattern[laneId].add(step) within the grid
addHit(laneId, step) ==
  /\ UNCHANGED dispatched
  /\ CountOp
  /\ IF step < 0 \/ step >= DRUM_CONFIG.stepsPerBar * DRUM_CONFIG.totalBars
     THEN /\ pattern' = pattern
          /\ thrown' = FALSE
     ELSE /\ thrown' = NoLaneSet(laneId)
          /\ pattern' = IF thrown' THEN pattern
                        ELSE [pattern EXCEPT ![laneId] = @ \cup {step}]
  /\ Observe(<< >>)
  /\ UNCHANGED <<transportVars, schedVars, rollVars, engineVars, run, lastTick,
                 lastReported, sinceVisualUpdate, recVars, laneStates, fxVars>>

\* removeHit, also the right click on a cell (handleGridRightClick)
removeHit(laneId, step) ==
  /\ UNCHANGED dispatched
  /\ CountOp
  /\ thrown' = NoLaneSet(laneId)
  /\ pattern' = IF thrown' THEN pattern ELSE [pattern EXCEPT ![laneId] = @ \ {step}]
  /\ Observe(<< >>)
  /\ UNCHANGED <<transportVars, schedVars, rollVars, engineVars, run, lastTick,
                 lastReported, sinceVisualUpdate, recVars, laneStates, fxVars>>

clearLane(laneId) ==
  /\ UNCHANGED dispatched
  /\ CountOp
  /\ thrown' = NoLaneSet(laneId)
  /\ pattern' = IF thrown' THEN pattern ELSE [pattern EXCEPT ![laneId] = {}]
  /\ Observe(<< >>)
  /\ UNCHANGED <<transportVars, schedVars, rollVars, engineVars, run, lastTick,
                 lastReported, sinceVisualUpdate, recVars, laneStates, fxVars>>

clearPattern ==
  /\ UNCHANGED dispatched
  /\ CountOp
  /\ thrown' = FALSE
  /\ pattern' = [l \in DOMAIN pattern |-> {}]
  /\ Observe(<< >>)
  /\ UNCHANGED <<transportVars, schedVars, rollVars, engineVars, run, lastTick,
                 lastReported, sinceVisualUpdate, recVars, laneStates, fxVars>>

\* setPattern: each lane is cleared and gets the steps the data holds for it,
\* whatever they are
PatternOf(data) ==
  [l \in DOMAIN pattern |-> IF l \in DOMAIN data THEN data[l] ELSE {}]

setPattern(data) ==
  /\ UNCHANGED dispatched
  /\ CountOp
  /\ thrown' = FALSE
  /\ pattern' = PatternOf(data)
  /\ Observe(<< >>)
  /\ UNCHANGED <<transportVars, schedVars, rollVars, engineVars, run, lastTick,
                 lastReported, sinceVisualUpdate, recVars, laneStates, fxVars>>

\* handleGridClick on a cell of the grid: toggleHit, then the preview of the
\* lane's drum if the cell now holds a hit
handleGridClick(laneId, step) ==
  /\ UNCHANGED dispatched
  /\ CountOp
  /\ IF step < 0 \/ step >= DRUM_CONFIG.stepsPerBar * DRUM_CONFIG.totalBars
     THEN pattern' = pattern
     ELSE pattern' = [pattern EXCEPT ![laneId] =
                        IF step \in @ THEN @ \ {step} ELSE @ \cup {step}]
  /\ IF step \in pattern'[laneId]
     THEN /\ audioContext' = TRUE           \* playDrumPreview
          /\ fxNodes' = EnsureNodes
     ELSE UNCHANGED <<audioContext, fxNodes>>
  /\ thrown' = FALSE
  /\ Observe(<< >>)
  /\ UNCHANGED <<transportVars, schedVars, rollVars, currentTime, run, lastTick,
                 lastReported, sinceVisualUpdate, recVars, laneStates, effectSettings,
                 liveVoices, rendered>>

\* setLaneVolume: Math.max(0, Math.min(1, volume)), in hundredths
setLaneVolume(laneId, volume) ==
  /\ UNCHANGED dispatched
  /\ CountOp
  /\ thrown' = NoLaneState(laneId)
  /\ laneStates' = IF laneId \in DOMAIN laneStates
                   THEN [laneStates EXCEPT ![laneId].volume = Max(0, Min(100, volume))]
                   ELSE laneStates
  /\ Observe(<< >>)
  /\ UNCHANGED <<transportVars, schedVars, rollVars, engineVars, run, lastTick,
                 lastReported, sinceVisualUpdate, recVars, pattern, fxVars>>

\* setLaneStates: { ...laneStates[laneId], ...states[laneId] } for the lanes
\* the data holds
LaneStatesWith(states) ==
  [l \in DOMAIN laneStates |->
     IF l \in DOMAIN states THEN Merge(laneStates[l], states[l]) ELSE laneStates[l]]

setLaneStates(states) ==
  /\ UNCHANGED dispatched
  /\ CountOp
  /\ thrown' = FALSE
  /\ laneStates' = LaneStatesWith(states)
  /\ Observe(<< >>)
  /\ UNCHANGED <<transportVars, schedVars, rollVars, engineVars, run, lastTick,
                 lastReported, sinceVisualUpdate, recVars, pattern, fxVars>>

toggleMute(laneId) ==
  /\ UNCHANGED dispatched
  /\ CountOp
  /\ thrown' = NoLaneState(laneId)
  /\ laneStates' = IF laneId \in DOMAIN laneStates
                   THEN [laneStates EXCEPT ![laneId].muted = ~@]
                   ELSE laneStates
  /\ Observe(<< >>)
  /\ UNCHANGED <<transportVars, schedVars, rollVars, engineVars, run, lastTick,
                 lastReported, sinceVisualUpdate, recVars, pattern, fxVars>>

toggleSolo(laneId) ==
  /\ UNCHANGED dispatched
  /\ CountOp
  /\ thrown' = NoLaneState(laneId)
  /\ laneStates' = IF laneId \in DOMAIN laneStates
                   THEN [laneStates EXCEPT ![laneId].solo = ~@]
                   ELSE laneStates
  /\ Observe(<< >>)
  /\ UNCHANGED <<transportVars, schedVars, rollVars, engineVars, run, lastTick,
                 lastReported, sinceVisualUpdate, recVars, pattern, fxVars>>

hasSoloedLane == \E l \in DOMAIN laneStates : laneStates[l].solo

\* getHitsAtStep: the audible lanes that have a hit at the step
getHitsAtStep(step) ==
  {[laneId |-> l, volume |-> laneStates[l].volume] :
     l \in {x \in DOMAIN pattern :
              /\ step \in pattern[x]
              /\ ~(laneStates[x].muted \/ (hasSoloedLane /\ ~laneStates[x].solo))}}

\* ------------------------------------------------------------------------
\* transport.js: controls
\* ------------------------------------------------------------------------

setBPM(x) ==
  /\ UNCHANGED dispatched
  /\ CountOp
  /\ thrown' = FALSE
  /\ bpm' = ClampBPM(x)
  /\ run' = IF isPlaying THEN [run EXCEPT !.clean = FALSE, !.bpmAt = run.k] ELSE run
  /\ Observe(<< >>)
  /\ UNCHANGED <<isPlaying, isPaused, position, loopEnabled, metronomeEnabled,
                 schedVars, rollVars, engineVars, lastTick, lastReported, sinceVisualUpdate, recVars, restVars>>

\* ui.js applySongData: setBPM(song.bpm || 120), the instrument
\* song.instrument || 'piano' unchecked, setAllNotes, setPattern, setLaneStates and updateEffectSettings
\* for what the song has, in this order.  An exception ends it where it is
\* thrown: by the render() of PianoRoll.setCurrentInstrument, by the render()
\* of setAllNotes, or by the first updateEffectSettings, which before
\* initAudioEngine throws after it has merged its settings.
NoSettings == [k \in {} |-> 0]

\* song[key] || default, falsy being the value of the property's type that
\* is false in a condition (0 for a number, '' for a string); a property the
\* song does not have is undefined
SongProperty(song, key, falsy, default) ==
  IF key \in DOMAIN song /\ song[key] # falsy THEN song[key] ELSE default

applySongData(song) ==
  /\ UNCHANGED dispatched
  /\ CountOp
  /\ bpm' = ClampBPM(SongProperty(song, "bpm", 0, 120))
  /\ run' = IF isPlaying THEN [run EXCEPT !.clean = FALSE, !.bpmAt = run.k] ELSE run
  /\ currentInstrument' = SongProperty(song, "instrument", "", "piano")
  /\ pianoRollInstrument' = currentInstrument'
  /\ IF RenderThrows(notes, noteObj, selectedNotes, pianoRollInstrument')
     THEN /\ thrown' = TRUE
          /\ UNCHANGED <<notes, noteObj, nextNoteId, selectedNotes, pending, pattern,
                         laneStates, effectSettings, fxNodes>>
     ELSE
       /\ IF "notes" \in DOMAIN song
          THEN /\ SetAllNotesEffect(song.notes)
               /\ pending' = None
          ELSE UNCHANGED <<notes, noteObj, nextNoteId, selectedNotes, pending>>
       /\ IF "notes" \in DOMAIN song
             /\ RenderThrows(notes', noteObj', {}, pianoRollInstrument')
          THEN /\ thrown' = TRUE
               /\ UNCHANGED <<pattern, laneStates, effectSettings, fxNodes>>
          ELSE
            /\ pattern' = IF "drumPattern" \in DOMAIN song
                          THEN PatternOf(song.drumPattern) ELSE pattern
            /\ laneStates' = IF "drumLaneStates" \in DOMAIN song
                             THEN LaneStatesWith(song.drumLaneStates) ELSE laneStates
            /\ LET effects == IF "effects" \in DOMAIN song THEN song.effects ELSE NoSettings
                   first == IF "reverb" \in DOMAIN effects THEN <<"reverb">> ELSE << >>
                   second == IF "delay" \in DOMAIN effects THEN <<"delay">> ELSE << >>
                   calls == first \o second
                   \* the calls of updateEffectSettings that are made: one if it
                   \* throws
                   made == IF audioContext \/ calls = << >> THEN calls ELSE <<calls[1]>>
                   after1 == IF Len(made) >= 1
                             THEN [effectSettings EXCEPT
                                     ![made[1]] = Merge(@, effects[made[1]])]
                             ELSE effectSettings
                   after2 == IF Len(made) >= 2
                             THEN [after1 EXCEPT ![made[2]] = Merge(@, effects[made[2]])]
                             ELSE after1
                   nodes1 == IF Len(made) >= 1 THEN EffectNodes(fxNodes, after1, made[1])
                             ELSE fxNodes
                   nodes2 == IF Len(made) >= 2 THEN EffectNodes(nodes1, after2, made[2])
                             ELSE nodes1
               IN /\ effectSettings' = after2
                  /\ fxNodes' = IF audioContext THEN nodes2 ELSE fxNodes
                  /\ thrown' = (calls # << >> /\ ~audioContext)
  /\ Observe(<< >>)
  /\ UNCHANGED <<isPlaying, isPaused, position, loopEnabled, metronomeEnabled,
                 schedVars, playheadPosition, hoveredNote, mouseVars, audioContext,
                 currentTime, lastTick, lastReported, sinceVisualUpdate, recordEnabled,
                 liveVoices, rendered>>

\* startScheduler: if (schedulerTimer) return; schedulerTimer = setInterval(..)
startScheduler(timer, live) ==
  IF timer THEN [timer |-> timer, live |-> live] ELSE [timer |-> TRUE, live |-> live + 1]

\* stopScheduler: if (schedulerTimer) { clearInterval(schedulerTimer);
\* schedulerTimer = null; }
stopSchedulerKeepsInterval(timer, live) == [timer |-> FALSE, live |-> live]

stopScheduler(timer, live) ==
  IF timer THEN [timer |-> FALSE, live |-> live - 1] ELSE [timer |-> timer, live |-> live]

\* play: the guard of its early return
PlayIgnoredWhenPaused == isPlaying

PlayIgnored == isPlaying /\ ~isPaused

\* play: the position and last-scheduled tick it starts from
PlayPositionReset(paused, pos) == 0

PlayPosition(paused, pos) == IF paused THEN pos ELSE 0
PlayLastScheduled(paused, lsp) == IF paused THEN lsp ELSE -1

\* play: the argument of its onPlayStateChange call
PlayNotifies == <<[isPlaying |-> TRUE, isPaused |-> FALSE]>>

play ==
  /\ UNCHANGED dispatched
  /\ CountOp
  /\ thrown' = FALSE
  /\ IF PlayIgnored
     THEN /\ Observe(<< >>)
          /\ UNCHANGED <<transportVars, schedVars, rollVars, engineVars, run, lastTick,
                         lastReported, sinceVisualUpdate, recVars, restVars>>
     ELSE /\ audioContext' = TRUE           \* resumeAudioContext / getAudioContext
          /\ fxNodes' = EnsureNodes
          /\ isPaused' = FALSE
          /\ position' = PlayPosition(isPaused, position)
          /\ lastScheduledPosition' = PlayLastScheduled(isPaused, lastScheduledPosition)
          /\ isPlaying' = TRUE
          /\ scheduledNotes' = getAllNotes
          /\ nextScheduleTime' = Seconds(currentTime)   \* audioContext.currentTime
          /\ schedulerTimer' = startScheduler(schedulerTimer, intervals).timer
          /\ intervals' = startScheduler(schedulerTimer, intervals).live
          /\ run' = [T0 |-> currentTime, k |-> 0, clean |-> TRUE, bpmAt |-> None]
          /\ lastTick' = IF isPaused THEN [lastTick EXCEPT !.time = None, !.bpm = None]
                         ELSE NoTick
          /\ Observe(PlayNotifies)
          /\ UNCHANGED <<bpm, loopEnabled, metronomeEnabled, rollVars, currentTime,
                         lastReported, sinceVisualUpdate, recVars, restVars>>

\* pause: the guard of its early return
PauseIgnoredOnlyPaused == isPaused

PauseIgnored == ~isPlaying \/ isPaused

pause ==
  /\ UNCHANGED dispatched
  /\ CountOp
  /\ thrown' = FALSE
  /\ IF PauseIgnored
     THEN /\ Observe(<< >>)
          /\ UNCHANGED <<transportVars, schedVars, rollVars, engineVars, run, lastTick,
                         lastReported, sinceVisualUpdate, recVars, restVars>>
     ELSE /\ isPaused' = TRUE
          /\ schedulerTimer' = stopScheduler(schedulerTimer, intervals).timer
          /\ intervals' = stopScheduler(schedulerTimer, intervals).live
          /\ run' = [run EXCEPT !.clean = FALSE]
          /\ Observe(<<[isPlaying |-> TRUE, isPaused |-> TRUE]>>)
          /\ UNCHANGED <<isPlaying, position, bpm, loopEnabled, metronomeEnabled,
                         nextScheduleTime, scheduledNotes, lastScheduledPosition,
                         rollVars, engineVars, lastTick, lastReported, sinceVisualUpdate, recVars, restVars>>

\* stop(): its assignments and its calls, shared by the control and by the
\* scheduler's end-of-arrangement branch.  PianoRoll.setPlayheadPosition(0)
\* comes before the two callbacks, which an exception of its render() does
\* not reach.
StopEffects ==
  /\ isPlaying' = FALSE
  /\ isPaused' = FALSE
  /\ position' = 0
  /\ lastScheduledPosition' = -1
  /\ schedulerTimer' = stopScheduler(schedulerTimer, intervals).timer
  /\ intervals' = stopScheduler(schedulerTimer, intervals).live
  /\ playheadPosition' = 0                  \* PianoRoll.setPlayheadPosition(0)
  /\ thrown' = RenderThrows(notes, noteObj, selectedNotes, pianoRollInstrument)
  /\ stateCalls' = IF thrown' THEN << >>
                   ELSE <<[isPlaying |-> FALSE, isPaused |-> FALSE]>>
  /\ lastReported' = IF thrown' THEN lastReported ELSE 0     \* onPositionUpdate(0)
  /\ lastTick' = NoTick

stop ==
  /\ UNCHANGED dispatched
  /\ CountOp
  /\ StopEffects
  /\ batch' = << >>
  /\ run' = NoRun
  /\ pending' = None
  /\ UNCHANGED <<bpm, loopEnabled, metronomeEnabled, nextScheduleTime, scheduledNotes,
                 notes, noteObj, nextNoteId, editVars, engineVars, sinceVisualUpdate,
                 recordEnabled, restVars>>

toggleLoop ==
  /\ UNCHANGED dispatched
  /\ CountOp
  /\ thrown' = FALSE
  /\ loopEnabled' = ~loopEnabled
  /\ Observe(<< >>)
  /\ UNCHANGED <<isPlaying, isPaused, position, bpm, metronomeEnabled,
                 schedVars, rollVars, engineVars, run, lastTick, lastReported, sinceVisualUpdate, recVars, restVars>>

toggleMetronome ==
  /\ UNCHANGED dispatched
  /\ CountOp
  /\ thrown' = FALSE
  /\ metronomeEnabled' = ~metronomeEnabled
  /\ Observe(<< >>)
  /\ UNCHANGED <<isPlaying, isPaused, position, bpm, loopEnabled,
                 schedVars, rollVars, engineVars, run, lastTick, lastReported, sinceVisualUpdate, recVars, restVars>>

toggleRecord ==
  /\ UNCHANGED dispatched
  /\ CountOp
  /\ thrown' = FALSE
  /\ recordEnabled' = ~recordEnabled
  /\ Observe(<< >>)
  /\ UNCHANGED <<transportVars, schedVars, rollVars, engineVars, run, lastTick, lastReported, sinceVisualUpdate>>
  /\ UNCHANGED <<pending, restVars>>

setLoop(enabled) ==
  /\ UNCHANGED dispatched
  /\ CountOp
  /\ thrown' = FALSE
  /\ loopEnabled' = enabled
  /\ Observe(<< >>)
  /\ UNCHANGED <<isPlaying, isPaused, position, bpm, metronomeEnabled,
                 schedVars, rollVars, engineVars, run, lastTick, lastReported, sinceVisualUpdate, recVars, restVars>>

setMetronome(enabled) ==
  /\ UNCHANGED dispatched
  /\ CountOp
  /\ thrown' = FALSE
  /\ metronomeEnabled' = enabled
  /\ Observe(<< >>)
  /\ UNCHANGED <<isPlaying, isPaused, position, bpm, loopEnabled,
                 schedVars, rollVars, engineVars, run, lastTick, lastReported, sinceVisualUpdate, recVars, restVars>>

setRecord(enabled) ==
  /\ UNCHANGED dispatched
  /\ CountOp
  /\ thrown' = FALSE
  /\ recordEnabled' = enabled
  /\ Observe(<< >>)
  /\ UNCHANGED <<transportVars, schedVars, rollVars, engineVars, run, lastTick, lastReported, sinceVisualUpdate>>
  /\ UNCHANGED <<pending, restVars>>

\* isRecording: recordEnabled && isPlaying && !isPaused
isRecordingWhilePaused == recordEnabled /\ isPlaying

isRecording == recordEnabled /\ isPlaying /\ ~isPaused

\* recordNote(pitch) with the default duration of 4: PianoRoll.addNote at
\* Math.floor(position), then the snapshot is taken again, unless addNote has
\* thrown after it pushed the note.
recordNote(pitch) ==
  /\ UNCHANGED dispatched
  /\ CountOp
  /\ NextObject <= MaxNotes
  /\ IF ~isRecording \/ addNoteRejects(pitch, position)
     THEN /\ thrown' = FALSE
          /\ UNCHANGED <<notes, noteObj, nextNoteId, scheduledNotes, pending>>
     ELSE /\ AddNoteEffect(pitch, position, 4, 80)
          /\ thrown' = AddNoteThrows(pitch, position, 4, 80)
          /\ IF thrown'
             THEN UNCHANGED <<scheduledNotes, pending>>
             ELSE /\ scheduledNotes' = notes'                 \* getAllNotes()
                  /\ pending' = NextObject
  /\ Observe(<< >>)
  /\ UNCHANGED <<transportVars, recordEnabled, schedulerTimer, intervals, nextScheduleTime,
                 lastScheduledPosition, playheadPosition, editVars, engineVars,
                 run, lastTick, lastReported, sinceVisualUpdate, restVars>>

\* ------------------------------------------------------------------------
\* transport.js: scheduler
\* ------------------------------------------------------------------------

\* scheduledNotes.filter(n => n.start === currentPosition)
NotesAt(snap, currentPosition) ==
  SelectSeq(snap, LAMBDA id : noteObj[id].start = currentPosition)

\* transportState.position >= totalLength
AtEndLate(pos) == pos > totalLength

AtEnd(pos) == pos >= totalLength

\* nextScheduleTime += sixteenthDuration
AdvanceTime(nst, sixteenthDuration) == DoubleAdd(nst, sixteenthDuration)

\* The branch taken when the position has reached the end: stop() unless
\* loopEnabled
EndsPlaybackAlsoLooping(atEnd, loop) == atEnd

EndsPlayback(atEnd, loop) == atEnd /\ ~loop

\* The snapshot taken when the loop wraps
WrapSnapshotStale(snap) == snap

WrapSnapshot(snap) == getAllNotes

\* The literal 0.1 of lookahead
LookaheadSeconds == Seconds(lookahead)

\* currentTime + lookahead, the clock reading now
Horizon(now) == DoubleAdd(Seconds(now), LookaheadSeconds)

\* while (nextScheduleTime < currentTime + lookahead), n iterations done
DueAtLeastOnce(nst, horizon, n) == n = 0 \/ Less(nst, horizon)

Due(nst, horizon, n) == Less(nst, horizon)

\* The while loop of scheduler().  s holds the variables the loop assigns:
\* position, nextScheduleTime (nst), lastScheduledPosition (lsp),
\* scheduledNotes (snap); out collects one entry per iteration, live the
\* voices the engine has built, k counts the iterations since play(), ended
\* tells that the loop left through stop(); horizon and sixteenthDuration are
\* the values the loop computes anew in each iteration, the clock reading and
\* the bpm being the same in all of them.  playNote throws for an instrument
\* that INSTRUMENTS inherits: the exception leaves forEach, the loop and
\* scheduler() at the first note of the tick, after the metronome click and
\* before anything is assigned; threw tells so, and the last entry of out is
\* then the tick that was not completed.
RECURSIVE SchedulerLoop(_, _)
SchedulerLoop(s, now) ==
  IF s.ended \/ s.threw \/ ~Due(s.nst, s.horizon, Len(s.out)) THEN s
  ELSE
    LET currentPosition == s.position
        startTime == Millis(s.nst)
        fresh == currentPosition # s.lsp
        clicks ==
          IF metronomeEnabled /\ fresh /\ currentPosition % 4 = 0
          THEN <<playMetronomeClick(startTime, currentPosition % 16 = 0)>>
          ELSE << >>
        notesToPlay == IF fresh THEN NotesAt(s.snap, currentPosition) ELSE << >>
        voices ==
          [i \in 1..Len(notesToPlay) |->
             playNote(notesToPlay[i], s.nst,
                      positionToSeconds(noteObj[notesToPlay[i]].duration, bpm), now)]
        built ==
          [i \in 1..Len(notesToPlay) |->
             RealtimeVoice(currentInstrument, noteObj[notesToPlay[i]].pitch,
                           s.nst,
                           positionToSeconds(noteObj[notesToPlay[i]].duration, bpm),
                           noteObj[notesToPlay[i]].velocity, now)]
        \* the loop body reads no drum pattern and calls no drum sampler
        drums == << >>
        atEnd == AtEnd(s.position + 1)
        wrap == atEnd /\ loopEnabled
        throws == notesToPlay # << >> /\ PlayNoteThrows(currentInstrument)
        entry == [tick |-> currentPosition, time |-> startTime, k |-> s.k,
                  bpm |-> bpm, now |-> now, fresh |-> fresh,
                  snap |-> s.snap, clicks |-> clicks,
                  voices |-> IF throws THEN << >> ELSE voices,
                  drums |-> drums, threw |-> throws]
    IN IF throws THEN [s EXCEPT !.out = Append(s.out, entry), !.threw = TRUE]
       ELSE SchedulerLoop(
         [position |-> IF wrap THEN 0 ELSE s.position + 1,
          nst |-> AdvanceTime(s.nst, s.sixteenthDuration),
          horizon |-> s.horizon,
          sixteenthDuration |-> s.sixteenthDuration,
          lsp |-> IF wrap THEN -1 ELSE IF fresh THEN currentPosition ELSE s.lsp,
          snap |-> IF wrap THEN WrapSnapshot(s.snap) ELSE s.snap,
          out |-> Append(s.out, entry),
          live |-> s.live \o built,
          k |-> s.k + 1,
          ended |-> EndsPlayback(atEnd, loopEnabled),
          threw |-> FALSE], now)

\* scheduler: the guard of its early return
SchedulerReturnsOnlyStopped == ~isPlaying

SchedulerReturns == ~isPlaying \/ isPaused

\* One run of scheduler() reading the audio clock as now, since milliseconds
\* of wall-clock time after updateVisualPosition last noted the time; the wall
\* clock advances with the audio clock.  updateVisualPosition returns early
\* when that is less than 50 ms.  Otherwise it notes the time, calls
\* PianoRoll.setPlayheadPosition and then onPositionUpdate, which an exception
\* of render() does not reach.
SchedulerRun(now, since) ==
  IF SchedulerReturns
  THEN /\ batch' = << >>
       /\ stateCalls' = << >>
       /\ sinceVisualUpdate' = since
       /\ thrown' = FALSE
       /\ UNCHANGED <<transportVars, schedVars, rollVars, run, lastTick, lastReported, ops, recVars, restVars>>
  ELSE
    \E r \in {SchedulerLoop(
               [position |-> position, nst |-> nextScheduleTime,
                horizon |-> Horizon(now), sixteenthDuration |-> get16thDuration(bpm),
                lsp |-> lastScheduledPosition, snap |-> scheduledNotes,
                out |-> << >>, live |-> liveVoices, k |-> run.k, ended |-> FALSE,
                threw |-> FALSE],
               now)} :
      \* n: the ticks the loop has completed
      LET n == IF r.threw THEN Len(r.out) - 1 ELSE Len(r.out)
          thr == since < VisualUpdateInterval
      IN /\ batch' = r.out
         /\ nextScheduleTime' = r.nst
         /\ scheduledNotes' = r.snap
         /\ liveVoices' = r.live
         /\ run' = [run EXCEPT !.k = r.k]
         /\ pending' = IF n > 0 THEN None ELSE pending
         /\ IF r.ended
            THEN /\ StopEffects
                 /\ sinceVisualUpdate' = since
            ELSE /\ position' = r.position
                 /\ lastScheduledPosition' = r.lsp
                 /\ stateCalls' = << >>
                 /\ lastTick' = IF n = 0 THEN lastTick
                                ELSE [tick |-> IF r.out[n].tick = totalLength - 1
                                               THEN -1 ELSE r.out[n].tick,
                                      time |-> r.out[n].time, bpm |-> r.out[n].bpm]
                 /\ UNCHANGED <<isPlaying, isPaused, schedulerTimer, intervals>>
                 \* updateVisualPosition, which an exception of playNote does
                 \* not reach
                 /\ IF r.threw
                    THEN /\ sinceVisualUpdate' = since
                         /\ thrown' = TRUE
                         /\ UNCHANGED <<playheadPosition, lastReported>>
                    ELSE /\ sinceVisualUpdate' = IF thr THEN since ELSE 0
                         /\ IF ~thr
                            THEN /\ playheadPosition' = r.position
                                 /\ thrown' = RenderThrows(notes, noteObj, selectedNotes,
                                                           pianoRollInstrument)
                                 /\ lastReported' = IF thrown' THEN lastReported
                                                    ELSE r.position
                            ELSE /\ thrown' = FALSE
                                 /\ UNCHANGED <<playheadPosition, lastReported>>
         /\ UNCHANGED <<bpm, loopEnabled, metronomeEnabled, notes, noteObj, nextNoteId,
                        editVars, ops, recordEnabled, drumVars, effectSettings, rendered>>

\* The interval timer invokes scheduler(); the audio clock stands where it is.
scheduler ==
  /\ UNCHANGED dispatched
  /\ schedulerTimer
  /\ SchedulerRun(currentTime, sinceVisualUpdate)
  /\ UNCHANGED engineVars

\* scheduler() invoked whether or not a timer exists; the notes it hands to
\* the engine are recorded with their onsets.
schedulerCall ==
  /\ SchedulerRun(currentTime, sinceVisualUpdate)
  /\ dispatched' = dispatched \cup
       UNION {{[note |-> batch'[i].voices[j].note, onset |-> batch'[i].voices[j].onset] :
                 j \in DOMAIN batch'[i].voices} : i \in DOMAIN batch'}
  /\ UNCHANGED engineVars

\* The interval timer fires one period (scheduleAheadTime) after play() or
\* after its previous firing, the audio clock having advanced by as much.
NominalPoll ==
  /\ UNCHANGED dispatched
  /\ schedulerTimer
  /\ currentTime + scheduleAheadTime <= MaxTime
  /\ currentTime' = currentTime + scheduleAheadTime
  /\ SchedulerRun(currentTime + scheduleAheadTime,
                  VisualAge(sinceVisualUpdate, scheduleAheadTime))
  /\ UNCHANGED <<audioContext, fxNodes>>

\* The audio clock advances while no timer is running.
IdleElapse(dt) ==
  /\ ~schedulerTimer
  /\ Elapse(dt)

\* ------------------------------------------------------------------------
\* Specifications
\* ------------------------------------------------------------------------

\* Any timing of the scheduler polls against the audio clock.
Next ==
  \/ \E dt \in ElapseSteps : Elapse(dt)
  \/ initAudioEngine
  \/ \E p \in PitchInputs, st \in StartInputs : addNote(p, st, 4, 80)
  \/ \E i \in 1..MaxNotes : removeNote(i)
  \/ \E x \in BpmInputs : setBPM(x)
  \/ play
  \/ pause
  \/ stop
  \/ toggleLoop
  \/ toggleMetronome
  \/ scheduler

Spec == Init /\ [][Next]_vars

\* Polls at the nominal period, the audio clock in step with the wall clock.
NextNominal ==
  \/ \E dt \in ElapseSteps : IdleElapse(dt)
  \/ initAudioEngine
  \/ \E p \in PitchInputs, st \in StartInputs : addNote(p, st, 4, 80)
  \/ \E i \in 1..MaxNotes : removeNote(i)
  \/ \E x \in BpmInputs : setBPM(x)
  \/ play
  \/ pause
  \/ stop
  \/ toggleLoop
  \/ toggleMetronome
  \/ NominalPoll

SpecNominal == Init /\ [][NextNominal]_vars

\* Recording: notes come from recordNote only, at the initial tempo.
NextRecord ==
  \/ \E dt \in ElapseSteps : Elapse(dt)
  \/ play
  \/ pause
  \/ stop
  \/ toggleRecord
  \/ \E p \in RecordPitchInputs : recordNote(p)
  \/ \E i \in 1..MaxNotes : removeNote(i)
  \/ scheduler

SpecRecord == Init /\ [][NextRecord]_vars

\* Playback of a drum pattern, at the initial tempo.
NextDrums ==
  \/ \E dt \in ElapseSteps : Elapse(dt)
  \/ \E l \in LaneIdInputs, st \in DrumStepInputs : toggleHit(l, st)
  \/ \E l \in LaneIdInputs : toggleMute(l)
  \/ \E l \in LaneIdInputs : toggleSolo(l)
  \/ \E l \in LaneIdInputs, st \in DrumStepInputs : addHit(l, st)
  \/ \E l \in LaneIdInputs, st \in DrumStepInputs : removeHit(l, st)
  \/ \E l \in DrumLaneInputs, st \in DrumStepInputs : handleGridClick(l, st)
  \/ \E l \in LaneIdInputs : clearLane(l)
  \/ clearPattern
  \/ \E data \in SongPatternInputs : setPattern(data)
  \/ \E l \in LaneIdInputs, v \in LaneVolumeInputs : setLaneVolume(l, v)
  \/ \E states \in SongLaneStatesInputs : setLaneStates(states)
  \/ toggleMetronome
  \/ \E enabled \in BOOLEAN : setMetronome(enabled)
  \/ play
  \/ stop
  \/ scheduler

SpecDrums == Init /\ [][NextDrums]_vars

\* The audio engine's operations called directly, in any order.
NextEngine ==
  \/ \E dt \in EngineElapseSteps : Elapse(dt)
  \/ initAudioEngine
  \/ \E id \in InstrumentInputs, st \in StartTimeInputs :
       AudioEngine_playNote(id, 60, st, 500, 80)
  \/ \E id \in InstrumentInputs : playPreviewNote(id, 60)
  \/ \E type \in DrumTypeInputs : playDrum(type, 200, 80)
  \/ \E type \in DrumTypeInputs : playDrumPreview(type)
  \/ \E down \in BOOLEAN : AudioEngine_playMetronomeClick(200, down)
  \/ \E patch \in ReverbPatches : updateEffectSettings("reverb", patch)
  \/ \E patch \in DelayPatches : updateEffectSettings("delay", patch)
  \/ \E v \in VolumeInputs : setMasterVolume(v)
  \/ \E ns \in RenderNoteInputs, id \in InstrumentInputs : renderToBuffer(ns, id, 120)

SpecEngine == Init /\ [][NextEngine]_vars

\* Playback with the initial settings: no toggle and no set operation.
NextDefaults ==
  \/ \E dt \in ElapseSteps : Elapse(dt)
  \/ \E instrument \in SelectorInputs : selectInstrument(instrument)
  \/ \E p \in PitchInputs, st \in StartInputs : addNote(p, st, 4, 80)
  \/ \E i \in 1..MaxNotes : removeNote(i)
  \/ play
  \/ pause
  \/ stop
  \/ scheduler

SpecDefaults == Init /\ [][NextDefaults]_vars

\* The interval timer keeps firing at its period while the audio clock
\* advances with it.  While loopEnabled is set playback has no end, and the
\* clock is explored up to MaxTime; with loopEnabled off it runs on to the
\* end of the arrangement.
PollDue ==
  /\ schedulerTimer
  /\ loopEnabled => currentTime + scheduleAheadTime <= MaxTime
  /\ currentTime' = currentTime + scheduleAheadTime

Poll ==
  /\ UNCHANGED dispatched
  /\ PollDue
  /\ SchedulerRun(currentTime + scheduleAheadTime,
                  VisualAge(sinceVisualUpdate, scheduleAheadTime))
  /\ UNCHANGED <<audioContext, fxNodes>>

NextLive ==
  \/ \E x \in BpmInputs : setBPM(x)
  \/ play
  \/ pause
  \/ stop
  \/ toggleLoop
  \/ Poll

\* setInterval invokes scheduler() again and again as long as the timer
\* exists: a poll that is due is made.  Poll is the one step of NextLive that
\* advances the clock.
SpecLive == Init /\ [][NextLive]_vars /\ WF_currentTime(PollDue)

\* Recording at any tempo, with and without loop, up to the end of the
\* arrangement.
NextRecordTempo ==
  \/ NextRecord
  \/ \E x \in BpmInputs : setBPM(x)
  \/ toggleLoop
  \/ \E enabled \in BOOLEAN : setLoop(enabled)
  \/ \E enabled \in BOOLEAN : setRecord(enabled)

SpecRecordTempo == Init /\ [][NextRecordTempo]_vars

\* Editing the piano roll during playback, at the initial tempo: the
\* operations that change the note list or a note.
NextEdit ==
  \/ \E dt \in EditElapseSteps : Elapse(dt)
  \/ \E p \in PitchInputs, st \in StartInputs : addNote(p, st, 4, 80)
  \/ \E id \in 1..MaxNotes : removeNote(id)
  \/ removeSelectedNotes
  \/ clearAllNotes
  \/ \E song \in SongNotesInputs : setAllNotes(song)
  \/ \E time \in MouseTimeInputs, pitch \in MousePitchInputs :
       handleMouseDown(time, pitch, FALSE)
  \/ \E time \in MouseTimeInputs, pitch \in MousePitchInputs : handleMouseMove(time, pitch)
  \/ handleMouseUp
  \/ \E time \in MouseTimeInputs, pitch \in MousePitchInputs : handleContextMenu(time, pitch)
  \/ play
  \/ pause
  \/ stop
  \/ scheduler

SpecEdit == Init /\ [][NextEdit]_vars

\* The piano roll's operations in any order, the transport stopped.
NextRoll ==
  \/ \E p \in PitchInputs, st \in StartInputs, d \in DurationInputs,
        v \in VelocityInputs : addNote(p, st, d, v)
  \/ \E id \in 1..MaxNotes : removeNote(id)
  \/ removeSelectedNotes
  \/ clearAllNotes
  \/ \E song \in SongNotesInputs : setAllNotes(song)
  \/ generateNoteId
  \/ \E id \in 1..MaxNotes, toggle \in BOOLEAN : selectNote(id, toggle)
  \/ clearSelection
  \/ \E time \in MouseTimeInputs, pitch \in MousePitchInputs, ctrlKey \in BOOLEAN :
       handleMouseDown(time, pitch, ctrlKey)
  \/ \E time \in MouseTimeInputs, pitch \in MousePitchInputs : handleMouseMove(time, pitch)
  \/ handleMouseUp
  \/ handleMouseLeave
  \/ \E time \in MouseTimeInputs, pitch \in MousePitchInputs : handleContextMenu(time, pitch)
  \/ \E instrument \in RollInstrumentInputs : setCurrentInstrument(instrument)
  \/ \E instrument \in SelectorInputs : selectInstrument(instrument)
  \/ \E pos \in PlayheadInputs : setPlayheadPosition(pos)

SpecRoll == Init /\ [][NextRoll]_vars

\* Effect settings from the controls and from loaded songs, and the master
\* volume.
NextSettings ==
  \/ initAudioEngine
  \/ \E v \in VolumeInputs : setMasterVolume(v)
  \/ \E patch \in ReverbPatches \cup SongReverbSettings : updateEffectSettings("reverb", patch)
  \/ \E patch \in DelayPatches \cup SongDelaySettings : updateEffectSettings("delay", patch)
  \/ \E effect \in EffectNameInputs : updateEffectSettings(effect, [enabled |-> TRUE])

SpecSettings == Init /\ [][NextSettings]_vars

\* The life of a voice: short notes, whose timeouts fall within MaxTime, built
\* at any reading of the clock.
NextVoices ==
  \/ \E dt \in ElapseSteps : Elapse(dt)
  \/ initAudioEngine
  \/ \E id \in {"piano", "distortedGuitar"}, st \in StartTimeInputs :
       AudioEngine_playNote(id, 60, st, 100, 80)
  \/ \E i \in 1..MaxVoices : voiceStop(i)
  \/ \E i \in 1..MaxVoices : cleanup(i)

SpecVoices == Init /\ [][NextVoices]_vars

\* Playback of songs that are loaded, before and during playback, with and
\* without loop.
NextSong ==
  \/ \E dt \in ElapseSteps : Elapse(dt)
  \/ \E song \in SongInputs : applySongData(song)
  \/ \E instrument \in SelectorInputs : selectInstrument(instrument)
  \/ toggleMetronome
  \/ toggleLoop
  \/ play
  \/ pause
  \/ stop
  \/ scheduler

SpecSong == Init /\ [][NextSong]_vars

\* scheduler() may be invoked in any state of the transport.
NextGuard ==
  \/ \E dt \in ElapseSteps : Elapse(dt)
  \/ \E p \in PitchInputs, st \in StartInputs : addNote(p, st, 4, 80)
  \/ play
  \/ pause
  \/ stop
  \/ schedulerCall

SpecGuard == Init /\ [][NextGuard]_vars

\* ------------------------------------------------------------------------
\* Properties
\* ------------------------------------------------------------------------

NoteIdsOf(voices) == [j \in DOMAIN voices |-> voices[j].note]
StateCall(playing, paused) == <<[isPlaying |-> playing, isPaused |-> paused]>>

\* C1: the transport only makes the transitions Stopped->Playing,
\* Playing->Paused, Playing->Stopped, Paused->Playing and Paused->Stopped, and
\* it is never paused without playing.
C1_Transitions ==
  [][ /\ \/ UNCHANGED <<isPlaying, isPaused>>
         \/ Stopped /\ Playing'
         \/ Playing /\ Paused'
         \/ Playing /\ Stopped'
         \/ Paused /\ Playing'
         \/ Paused /\ Stopped'
      /\ ~(isPaused' /\ ~isPlaying') ]_vars

\* The transport is paused in the middle of a pass.
C1_Witness == Paused /\ run.k > 0 /\ stateCalls = StateCall(TRUE, TRUE)

\* C2: the ticks the scheduler processes in a pass are consecutive, also over
\* pause() and play(), and at each of them every note of the snapshot that
\* starts there is handed to playNote once, with the tick's nextScheduleTime.
C2_Dispatch ==
  LET b == batch'
      wrapAt == IF \E i \in DOMAIN b : b[i].tick = totalLength - 1
                THEN CHOOSE i \in DOMAIN b :
                       /\ b[i].tick = totalLength - 1
                       /\ \A j \in 1..(i - 1) : b[j].tick # totalLength - 1
                ELSE Len(b) + 1
  IN \A i \in DOMAIN b :
       LET e == b[i]
           expectedTick == IF i = 1 THEN lastTick.tick + 1
                           ELSE IF b[i - 1].tick = totalLength - 1 THEN 0
                           ELSE b[i - 1].tick + 1
           expectedTime == IF i = 1 THEN Millis(nextScheduleTime)
                           ELSE b[i - 1].time + (15000 \div bpm)
           snapshot == IF i <= wrapAt THEN scheduledNotes ELSE notes
           due == {id \in Range(snapshot) : noteObj[id].start = e.tick}
       IN /\ e.tick = expectedTick
          /\ e.time = expectedTime
          /\ Len(e.voices) = Cardinality(due)
          /\ Range(NoteIdsOf(e.voices)) = due
          /\ \A j \in DOMAIN e.voices : e.voices[j].startTime = e.time

C3_OnsetOnGrid ==
  run.clean =>
    \A i \in DOMAIN batch : \A j \in DOMAIN batch[i].voices :
      batch[i].voices[j].onset = run.T0 + batch[i].k * (15000 \div bpm)

\* C4: with polls at the nominal period no note or click is dispatched with
\* an onset earlier than the clock value its scheduler invocation read.
C4_AheadOfClock ==
  \A i \in DOMAIN batch :
    /\ \A j \in DOMAIN batch[i].voices : batch[i].voices[j].onset >= batch[i].now
    /\ \A j \in DOMAIN batch[i].clicks : batch[i].clicks[j].startTime >= batch[i].now

\* C5: with loop enabled the tick processed after the last tick is tick 0,
\* and from there on the notes dispatched are those of the note sequence as it
\* is at the wrap.
C5_Wrap ==
  LET b == batch'
  IN \A i \in DOMAIN b :
       (b[i].tick = totalLength - 1 /\ loopEnabled) =>
         /\ Playing'
         /\ scheduledNotes' = notes
         /\ position' = Len(b) - i
         /\ \A m \in (i + 1)..Len(b) :
              /\ b[m].tick = m - i - 1
              /\ NoteIdsOf(b[m].voices) =
                   SelectSeq(notes, LAMBDA id : noteObj[id].start = b[m].tick)

C7_Play ==
  [][play =>
       /\ Paused => (position' = position /\ Playing' /\ schedulerTimer')
       /\ Stopped => (/\ position' = 0
                      /\ scheduledNotes' = notes
                      /\ Playing' /\ schedulerTimer')
       /\ Playing => UNCHANGED <<transportVars, schedVars, rollVars, engineVars>>
    ]_vars

\* play() has resumed a pass that was paused after its first tick.
C7_Witness ==
  /\ stateCalls = StateCall(TRUE, FALSE)
  /\ Playing
  /\ position > 0
  /\ schedulerTimer

\* C8: stop() leaves the transport Stopped at position 0 with the timer
\* cancelled, the playhead at 0 and 0 reported; a Stopped transport has
\* reported 0 last, if it has reported at all.
C8_Stop ==
  [][ /\ stop => (/\ Stopped' /\ position' = 0 /\ ~schedulerTimer'
                  /\ playheadPosition' = 0 /\ lastReported' = 0)
      /\ (Stopped' /\ lastReported' # None) => lastReported' = 0 ]_vars

\* The onset of the tick processed before entry i of the batch b, None if no
\* tick has been processed since play().
PrevTime(b, i) == IF i = 1 THEN lastTick.time ELSE b[i - 1].time

\* C9 as stated: every tick processed after setBPM(b) is spaced from the tick
\* processed before it by 60/b'/4, b' being the clamped new bpm.
C9_SpacingIsCurrentBpm ==
  [][scheduler =>
       \A i \in DOMAIN batch' :
         PrevTime(batch', i) # None =>
           batch'[i].time - PrevTime(batch', i) = 15000 \div bpm]_vars

\* C9 as amended: setBPM changes neither nextScheduleTime nor what has been
\* dispatched, so the first tick processed after it keeps the onset computed
\* with the bpm in force when the tick before it was processed; every later
\* tick is spaced from the tick before it by 60/b'/4.
C9_Spacing ==
  [][ /\ scheduler =>
           \A i \in DOMAIN batch' :
             PrevTime(batch', i) # None =>
               batch'[i].time - PrevTime(batch', i) =
                 15000 \div (IF i = 1 THEN lastTick.bpm ELSE bpm)
      /\ \A x \in BpmInputs :
           setBPM(x) => (/\ nextScheduleTime' = nextScheduleTime
                         /\ lastTick' = lastTick
                         /\ position' = position) ]_vars

\* The scheduler has processed the first two ticks after a setBPM that changed
\* the tempo in the middle of a run: the first one keeps the old spacing.
C9_Witness ==
  /\ Playing
  /\ Len(batch) >= 2
  /\ batch[1].k > 0
  /\ batch[1].k = run.bpmAt
  /\ batch[2].time - batch[1].time = 15000 \div bpm
  /\ (batch[1].time - run.T0) % (15000 \div bpm) # 0

\* C10: bpm stays within [20, 300]; setBPM(x) stores min(300, max(20, x)).
C10_BpmRange ==
  [][ /\ bpm' >= 20 /\ bpm' <= 300
      /\ \A x \in BpmInputs :
           setBPM(x) => bpm' = (IF x < 20 THEN 20 ELSE IF x > 300 THEN 300 ELSE x)
    ]_vars

\* setBPM(5) has stored 20.
C10_Witness == bpm = 20

C12_DrumsDispatched ==
  \A i \in DOMAIN batch :
    \A h \in getHitsAtStep(batch[i].tick) :
      \E j \in DOMAIN batch[i].drums :
        /\ batch[i].drums[j].drumType = h.laneId
        /\ batch[i].drums[j].startTime = batch[i].time

\* C13: every step that changes the transport state, a control operation or
\* the scheduler reaching the end with loop disabled, invokes the play-state
\* callback exactly once, with the state the transport is in after the step.
C13_CallbackOnTransition ==
  [][ <<isPlaying, isPaused>>' # <<isPlaying, isPaused>> =>
        stateCalls' = <<[isPlaying |-> isPlaying', isPaused |-> isPaused']>> ]_vars

\* The events of an envelope with their times to the nearest millisecond
EnvelopeMillis(envelope) ==
  [j \in DOMAIN envelope |->
     [op |-> envelope[j].op, value |-> envelope[j].value,
      time |-> Millis(envelope[j].time)]]

\* C14: a voice that playNote built for a start time s, a duration D of at
\* least attack + decay and a velocity v has the envelope 0 at s, v at
\* s + attack, sustain * v at s + attack + decay and at s + D, 0 at
\* s + D + release.
C14_EnvelopeFromStart ==
  \A i \in DOMAIN liveVoices :
    LET voice == liveVoices[i]
        e == INSTRUMENTS[voice.instrument].envelope
        st == voice.startTime
        v == voice.velocity
    IN (st # None /\ Millis(voice.duration) >= e.attack + e.decay) =>
         EnvelopeMillis(voice.envelope) =
           <<[op |-> "setValueAtTime", value |-> 0, time |-> st],
             [op |-> "linearRampToValueAtTime", value |-> 100 * v, time |-> st + e.attack],
             [op |-> "linearRampToValueAtTime", value |-> e.sustain * v,
              time |-> st + e.attack + e.decay],
             [op |-> "setValueAtTime", value |-> e.sustain * v,
              time |-> st + Millis(voice.duration)],
             [op |-> "linearRampToValueAtTime", value |-> 0,
              time |-> st + Millis(voice.duration) + e.release]>>

\* C15: a voice feeds the dry bus, the reverb send iff reverb was enabled and
\* the delay send iff delay was enabled when playNote built it, and no step,
\* updateEffectSettings included, changes the buses of a voice that exists.
C15_FanOutFixed ==
  [][ /\ \A i \in DOMAIN liveVoices :
           /\ i \in DOMAIN liveVoices'
           /\ liveVoices'[i].buses = liveVoices[i].buses
      /\ \A i \in DOMAIN liveVoices' \ DOMAIN liveVoices :
           /\ "dry" \in liveVoices'[i].buses
           /\ ("reverb" \in liveVoices'[i].buses) <=> effectSettings.reverb.enabled
           /\ ("delay" \in liveVoices'[i].buses) <=> effectSettings.delay.enabled
           /\ liveVoices'[i].buses \subseteq {"dry", "reverb", "delay"} ]_vars

\* A voice built while reverb was enabled still feeds the reverb send after
\* reverb has been disabled, and not the delay send enabled after it was built.
C15_Witness ==
  \E i \in DOMAIN liveVoices :
    /\ liveVoices[i].buses = {"dry", "reverb"}
    /\ ~effectSettings.reverb.enabled
    /\ effectSettings.delay.enabled

\* C16: once the engine is initialized the reverb wet gain is reverb.mix if
\* reverb.enabled and 0 otherwise, the delay wet gain is delay.mix if
\* delay.enabled and 0 otherwise, the delay time and the feedback gain are
\* those of the settings, and the paths of the effects chain are connected.
C16_NodesFollowSettings ==
  audioContext =>
    /\ fxNodes.reverbGain =
         (IF effectSettings.reverb.enabled THEN effectSettings.reverb.mix ELSE 0)
    /\ fxNodes.delayGain =
         (IF effectSettings.delay.enabled THEN effectSettings.delay.mix ELSE 0)
    /\ fxNodes.delayTime = effectSettings.delay.time
    /\ fxNodes.feedbackGain = effectSettings.delay.feedback
    /\ {<<"reverbNode", "reverbGain">>, <<"reverbGain", "masterGain">>,
        <<"delayNode", "delayGain">>, <<"delayGain", "masterGain">>}
         \subseteq fxNodes.paths

\* C17: the voice renderToBuffer builds for a note has the oscillators, the
\* filter stage, the distortion stage and the envelope events of the voice
\* playNote builds for the same instrument, velocity, start and duration.
C17_RenderBuildsSameVoice ==
  \A i \in DOMAIN rendered :
    LET off == rendered[i]
        rt == RealtimeVoice(off.instrumentId, off.midiNote, off.start, off.duration,
                            off.velocity, Millis(off.start))
    IN /\ off.oscillators = rt.oscillators
       /\ off.filter = rt.filter
       /\ off.distortion = rt.distortion
       /\ off.envelope = rt.envelope

\* The operations of the engine named by C18
EngineCall ==
  \/ \E id \in InstrumentInputs, st \in StartTimeInputs :
       AudioEngine_playNote(id, 60, st, 500, 80)
  \/ \E id \in InstrumentInputs : playPreviewNote(id, 60)
  \/ \E type \in DrumTypeInputs : playDrum(type, 200, 80)
  \/ \E type \in DrumTypeInputs : playDrumPreview(type)
  \/ \E down \in BOOLEAN : AudioEngine_playMetronomeClick(200, down)
  \/ \E patch \in ReverbPatches : updateEffectSettings("reverb", patch)
  \/ \E patch \in DelayPatches : updateEffectSettings("delay", patch)
  \/ \E v \in VolumeInputs : setMasterVolume(v)

\* C18: no call of an exposed operation of the engine throws, whether or not
\* the engine has been initialized.
C18_NoRawException == [][EngineCall => ~thrown']_vars

\* C19: playNote and renderToBuffer called with an instrument id that is not
\* in the registry do not fail and build the oscillators and the envelope of
\* the voice they build for 'piano'.
C19_UnknownIsPiano ==
  [][\A id \in InstrumentInputs \ DOMAIN INSTRUMENTS :
       /\ \A st \in StartTimeInputs :
            AudioEngine_playNote(id, 60, st, 500, 80) =>
              /\ ~thrown'
              /\ LET built == liveVoices'[Len(liveVoices')]
                     piano == RealtimeVoice("piano", 60, TimeArg(st), Seconds(500), 80,
                                            currentTime)
                 IN /\ built.oscillators = piano.oscillators
                    /\ built.envelope = piano.envelope
       /\ \A ns \in RenderNoteInputs :
            renderToBuffer(ns, id, 120) =>
              /\ ~thrown'
              /\ \A i \in DOMAIN ns :
                   /\ rendered'[i].oscillators = OfflineVoice(ns[i], "piano", 120).oscillators
                   /\ rendered'[i].envelope = OfflineVoice(ns[i], "piano", 120).envelope
    ]_vars

\* C20: as long as no toggle or set operation has been called, loop mode is
\* enabled and the metronome is on, and every beat the scheduler processes
\* gets a metronome click.
C20_DefaultsOn ==
  /\ loopEnabled
  /\ metronomeEnabled
  /\ \A i \in DOMAIN batch : batch[i].tick % 4 = 0 => batch[i].clicks # << >>

C22_ClampedCatchUp ==
  /\ \A i \in DOMAIN batch : batch[i].time >= batch[i].now
  /\ \A i \in DOMAIN batch : i <= lookahead \div (15000 \div batch[i].bpm) + 2

\* C23: an invocation of scheduler() while the transport is Paused or Stopped
\* processes no tick and changes neither the transport state, the scheduler's
\* variables, the note sequence nor what has been dispatched; the position
\* of a transport that stays Paused does not change; no step removes or
\* alters an event that has been dispatched.
C23_IdleSchedulerChangesNothing ==
  [][ /\ (schedulerCall /\ ~Playing) =>
           /\ batch' = << >>
           /\ UNCHANGED <<transportVars, schedVars, rollVars, dispatched>>
      /\ (Paused /\ Paused') => position' = position
      /\ dispatched \subseteq dispatched' ]_vars

\* scheduler() has been invoked after stop(), at the clock value of the
\* stop, while a note dispatched before the stop is still to sound.
C23_Witness ==
  /\ Stopped
  /\ ops = 3
  /\ stateCalls = << >>
  /\ batch = << >>
  /\ sinceVisualUpdate < VisualUpdateInterval
  /\ \E e \in dispatched : e.onset > currentTime

\* C24: whenever the transport is Playing after a step, its position is at
\* least 0 and less than bars * beatsPerBar * sixteenthsPerBeat, and every
\* note that recordNote inserts starts at such a tick.
C24_PositionInArrangement ==
  [][ /\ Playing' =>
           /\ position' >= 0
           /\ position' < getConfig.bars * getConfig.beatsPerBar * getConfig.sixteenthsPerBeat
      /\ \A p \in RecordPitchInputs :
           (recordNote(p) /\ notes' # notes) =>
             /\ noteObj'[NextObject].start >= 0
             /\ noteObj'[NextObject].start <
                  getConfig.bars * getConfig.beatsPerBar * getConfig.sixteenthsPerBeat
    ]_vars

\* recordNote has inserted a note within the last two ticks of the
\* arrangement.
C24_Witness ==
  /\ Playing
  /\ pending # None
  /\ noteObj[pending].start >= totalLength - 2
  /\ position = noteObj[pending].start

\* C25: from play-start to the end of the pass, over pauses too, the
\* scheduler's snapshot changes only when the loop wraps or recordNote inserts
\* a note, and the notes it holds keep their start, pitch and duration, so
\* that what the rest of the pass dispatches is what the snapshot held at its
\* start and what recordNote inserted.
C25_SnapshotPerPass ==
  [][ ~Stopped =>
        /\ scheduledNotes' # scheduledNotes =>
              \/ \E p \in RecordPitchInputs : recordNote(p)
              \/ \E i \in DOMAIN batch' : batch'[i].tick = totalLength - 1
        /\ \A id \in Range(scheduledNotes) : noteObj'[id] = noteObj[id] ]_vars

\* After an invocation of scheduler() an invocation at the same clock value
\* finds the transport not Playing or nextScheduleTime beyond the window.
NoTickDue == ~Playing \/ ~Due(nextScheduleTime, Horizon(currentTime), 0)

C27_BreakpointsIncrease ==
  \A voice \in Range(liveVoices) \cup Range(rendered) :
    LET attackEnd == voice.envelope[2].time
        decayEnd == voice.envelope[3].time
        releaseStart == voice.envelope[4].time
        releaseEnd == voice.envelope[5].time
    IN /\ Less(attackEnd, decayEnd)
       /\ ~Less(releaseStart, decayEnd)
       /\ Less(releaseStart, releaseEnd)

\* C28: the effect settings keep mix within [0, 1] for both effects, the
\* delay time at most 2 s and the delay feedback within [0, 1), and the gain
\* of the delay's feedback loop stays below 1.
C28_SettingsInRange ==
  /\ effectSettings.reverb.mix >= 0 /\ effectSettings.reverb.mix <= 100
  /\ effectSettings.delay.mix >= 0 /\ effectSettings.delay.mix <= 100
  /\ effectSettings.delay.time <= 2000
  /\ effectSettings.delay.feedback >= 0 /\ effectSettings.delay.feedback < 100
  /\ audioContext => fxNodes.feedbackGain < 100

\* C29: no node of a voice is disconnected more than once or before the end
\* of the voice's release and a margin, and once the voice's cleanup has run
\* every node playNote created for it has been disconnected once, whether or
\* not the handle's stop() was called.
C29_EveryNodeDisconnectedOnce ==
  \A i \in DOMAIN liveVoices :
    LET voice == liveVoices[i]
        releaseEnd ==
          DoubleAdd(DoubleAdd(voice.start, voice.duration),
                    Seconds(INSTRUMENTS[voice.instrument].envelope.release))
    IN /\ \A node \in DOMAIN voice.disconnects : voice.disconnects[node] <= 1
       /\ (\E node \in DOMAIN voice.disconnects : voice.disconnects[node] > 0) =>
            Less(releaseEnd, Seconds(currentTime))
       /\ voice.cleaned =>
            \A node \in DOMAIN voice.disconnects : voice.disconnects[node] = 1

\* C30: at most one interval timer exists, one exists exactly when the
\* transport is Playing and not paused, and schedulerTimer holds it.
C30_OneTimerWhilePlaying ==
  /\ intervals <= 1
  /\ intervals = 1 <=> Playing
  /\ schedulerTimer <=> intervals = 1

\* play() has resumed a paused pass after an earlier play() and pause(), and
\* one timer is running.
C30_Witness ==
  /\ Playing
  /\ intervals = 1
  /\ ops >= 3
  /\ run.k = 0
  /\ position > 0
  /\ stateCalls = StateCall(TRUE, FALSE)

====
